---- MODULE Spec2Model ----
(***************************************************************************)
(* Search-and-synthesize pipeline of the DEADLINE site                     *)
(* (src/unnamed/part_000: the analysis API route).                         *)
(*                                                                         *)
(* Text is modelled as a sequence of tokens, lengths as numbers, the       *)
(* external collaborators (search API, article hosts, LLM, store) as       *)
(* nondeterministic outcomes drawn from small sets.                        *)
(***************************************************************************)
EXTENDS Integers, Sequences, FiniteSets, TLC

VARIABLES
    \* ---- processEvent (Pipeline Controller) ----
    pc,              \* position of the one processEvent invocation
    stagesEntered,   \* stages entered by the current invocation, in order
    now,             \* the wall clock (new Date())
    events,          \* the events row of event_id
    event_details,   \* the event_details rows of event_id
    pre,             \* the persisted state when the invocation started
    scrapedData,     \* const scrapedData
    response,        \* the LLM completion received
    analyzedData,    \* const analyzedData
    structuredData,  \* const structuredData
    dbOperation,     \* saveEventDetails: the operation chosen by the check
    result,          \* how the invocation ended
    calls,           \* external calls made by the current invocation
    \* ---- searchGoogleAndScrape: the page loop ----
    searchPc,        \* position in the page loop
    page,            \* let page
    requests,        \* the start indices of the page requests sent, in order
    webResponse,     \* the answer to the latest page request
    allResults,      \* const allResults
    inFlight,        \* page requests sent and not yet answered
    pauses,          \* the pages after which the 300 ms pause was taken
    filteredResults, \* const filteredResults
    articlesToScrape,\* const articlesToScrape
    \* ---- searchGoogleAndScrape: the scrape batch ----
    batchPc,         \* position after the page loop
    fetches,         \* per selected result: where its scrapeArticle call is
    scrapedArticles, \* per selected result: the settled promise
    successfulArticles, \* const successfulArticles
    imageResponse,   \* searchImages: what the image API answered
    \* ---- extractArticleContent (Content Extractor) ----
    extractPc,       \* position in the fallback ladder
    html,            \* the page handed to the extractor
    content,         \* let content (its length)
    tiersTried,      \* the tiers tried so far, each with the content it left
    article,         \* the ScrapedArticle returned
    \* ---- the HTTP route (GET and POST handlers) ----
    routePc,         \* position of the handler
    request,         \* the request received
    httpStatus,      \* the status of the response sent (0: none yet)
    \* ---- two concurrent saveEventDetails calls ----
    savePc,          \* per call: its position
    saveOp,          \* per call: let dbOperation
    saveTimestamp,   \* per call: const timestamp
    issued,          \* the writes sent to the store, in order
    \* ---- SearchBar ----
    searchQuery,     \* the searchQuery state
    timers,          \* the timeouts set and not yet run
    barClock,        \* time in the browser, in ms
    typed,           \* the handleSearch calls so far, in order
    delivered        \* the onSearchResults calls so far, in order

pipelineVars == <<pc, stagesEntered, now, events, event_details, pre,
                  scrapedData, response, analyzedData, structuredData,
                  dbOperation, result, calls>>
searchVars == <<searchPc, page, requests, webResponse, allResults, inFlight, pauses,
                filteredResults, articlesToScrape>>
batchVars == <<batchPc, fetches, scrapedArticles, successfulArticles, imageResponse>>
extractVars == <<extractPc, html, content, tiersTried, article>>
routeVars == <<routePc, request, httpStatus>>
saveVars == <<savePc, saveOp, saveTimestamp, issued>>
barVars == <<searchQuery, timers, barClock, typed, delivered>>
extraVars == <<extractVars, routeVars, saveVars, barVars>>
vars == <<pipelineVars, searchVars, batchVars, extraVars>>

Null == [type |-> "null", len |-> 0]

\* the extractor is not running
NoHtml == [len |-> 0, a |-> 0, p |-> -1, d |-> -1, m |-> 0, throws |-> FALSE]
ExtractIdle ==
    /\ extractPc = "off" /\ html = NoHtml /\ content = 0
    /\ tiersTried = <<>> /\ article = Null

\* no request was received
NoRequest == [method |-> "none", api_key |-> "missing", event_id |-> "missing"]
RouteIdle == routePc = "off" /\ request = NoRequest /\ httpStatus = 0

\* no concurrent saves are running
SaveIdle ==
    /\ savePc = <<>> /\ saveOp = <<>> /\ saveTimestamp = <<>> /\ issued = <<>>

\* the search bar is not mounted
BarIdle ==
    /\ searchQuery = <<>> /\ timers = {} /\ barClock = 0
    /\ typed = <<>> /\ delivered = <<>>

ExtraIdle == ExtractIdle /\ RouteIdle /\ SaveIdle /\ BarIdle

Min(a, b) == IF a < b THEN a ELSE b
Max(a, b) == IF a > b THEN a ELSE b

(***************************************************************************)
(* Bounds of the model                                                     *)
(***************************************************************************)
\* longest free-form LLM response, in tokens
MaxLen == 4

(***************************************************************************)
(* Values of the parsed LLM object                                         *)
(***************************************************************************)
EmptyString == [type |-> "string", len |-> 0]
EmptyArray == [type |-> "array", len |-> 0]
TextValue == [type |-> "string", len |-> 1]
ListValue == [type |-> "array", len |-> 1]
BoolValue(b) == [type |-> "boolean", len |-> IF b THEN 1 ELSE 0]

\* Array.isArray(v)
ArrayIsArray(v) == v.type = "array"

(***************************************************************************)
(* Tokens of an LLM response                                               *)
(***************************************************************************)
WS == "ws"          \* white space
FENCE == "fence"       \* three backticks
JSONTAG == "json"
LB == "{"
RB == "}"
PROSE == "x"        \* text with no brace, fence or JSON meaning
NUM == "n"          \* a JSON scalar (number, string, true, null)
ARR == "[]"         \* a JSON array literal

requiredFields == <<"location", "details", "accused", "victims", "timeline">>
RequiredFieldSet == {requiredFields[i] : i \in 1..Len(requiredFields)}

\* a member token is one "key": value of an object, separators included
MemberTokens == RequiredFieldSet \cup {"details:null"}
MemberKey(t) == IF t = "details:null" THEN "details" ELSE t
MemberValue(t) ==
    CASE t = "details:null" -> Null
      [] t \in {"accused", "victims", "timeline"} -> ListValue
      [] OTHER -> TextValue

(***************************************************************************)
(* String helpers, with JavaScript's conventions (0-based indices)         *)
(***************************************************************************)
RECURSIVE TrimStart(_)
TrimStart(s) == IF s # <<>> /\ Head(s) = WS THEN TrimStart(Tail(s)) ELSE s

RECURSIVE TrimEnd(_)
TrimEnd(s) ==
    IF s # <<>> /\ s[Len(s)] = WS THEN TrimEnd(SubSeq(s, 1, Len(s) - 1)) ELSE s

\* String.prototype.trim
Trim(s) == TrimEnd(TrimStart(s))

\* String.prototype.indexOf: -1 when absent
IndexOf(s, t) ==
    IF \E i \in 1..Len(s) : s[i] = t
    THEN (CHOOSE i \in 1..Len(s) : s[i] = t /\ \A j \in 1..(i - 1) : s[j] # t) - 1
    ELSE -1

\* String.prototype.lastIndexOf: -1 when absent
LastIndexOf(s, t) ==
    IF \E i \in 1..Len(s) : s[i] = t
    THEN (CHOOSE i \in 1..Len(s) : s[i] = t /\ \A j \in (i + 1)..Len(s) : s[j] # t) - 1
    ELSE -1

\* String.prototype.substring(a, b): clamps to [0, length], swaps when a > b
Substring(s, a, b) ==
    LET ca == Max(0, Min(a, Len(s)))
        cb == Max(0, Min(b, Len(s)))
    IN SubSeq(s, Min(ca, cb) + 1, Max(ca, cb))

\* s.startsWith(prefix)
StartsWith(s, prefix) ==
    Len(s) >= Len(prefix) /\ SubSeq(s, 1, Len(prefix)) = prefix

\* the trailing-fence replace: drops a closing fence followed only by white space
StripTrailingFence(s) ==
    LET t == TrimEnd(s)
    IN IF t # <<>> /\ t[Len(t)] = FENCE THEN SubSeq(t, 1, Len(t) - 1) ELSE s

\* lines 506-510: strip a leading fence (with or without json) and a trailing fence
StripFences(s) ==
    IF StartsWith(s, <<FENCE, JSONTAG>>)
    THEN StripTrailingFence(TrimStart(SubSeq(s, 3, Len(s))))
    ELSE IF StartsWith(s, <<FENCE>>)
         THEN StripTrailingFence(TrimStart(SubSeq(s, 2, Len(s))))
         ELSE s

\* the tokens of s that are not white space
RECURSIVE Significant(_)
Significant(s) ==
    IF s = <<>> THEN <<>>
    ELSE IF Head(s) = WS THEN Significant(Tail(s))
         ELSE <<Head(s)>> \o Significant(Tail(s))

\* the object built from a list of members: a later duplicate key wins
RECURSIVE ObjectOf(_)
ObjectOf(ms) ==
    IF ms = <<>> THEN <<>>
    ELSE LET m == ms[Len(ms)]
             rest == ObjectOf(SubSeq(ms, 1, Len(ms) - 1))
             keys == (DOMAIN rest) \cup {MemberKey(m)}
         IN [k \in keys |-> IF k = MemberKey(m) THEN MemberValue(m) ELSE rest[k]]

\* JSON.parse: ok = FALSE stands for the SyntaxError it throws
JSONParse(s) ==
    LET t == Significant(s)
    IN IF t = <<NUM>> THEN [ok |-> TRUE, kind |-> "scalar", fields |-> <<>>]
       ELSE IF t = <<ARR>> THEN [ok |-> TRUE, kind |-> "array", fields |-> <<>>]
       ELSE IF /\ Len(t) >= 2
               /\ t[1] = LB
               /\ t[Len(t)] = RB
               /\ \A i \in 2..(Len(t) - 1) : t[i] \in MemberTokens
            THEN [ok |-> TRUE, kind |-> "object",
                  fields |-> ObjectOf(SubSeq(t, 2, Len(t) - 1))]
            ELSE [ok |-> FALSE, kind |-> "error", fields |-> <<>>]

(***************************************************************************)
(* Synthesis Engine: processArticlesWithGroq                               *)
(***************************************************************************)
ErrNoResponse == "No response from Groq API"
ErrNoJsonObject == "Invalid JSON response from Groq - no JSON object found"
ErrInvalidJsonFormat == "Invalid JSON format from Groq response"
ErrInOperator == "Cannot use 'in' operator to search for a key in a primitive"
ErrGroqRequest == "the completion request failed"

\* the outer catch: new Error("Failed to process data with Groq API: " + message)
GroqWrap(message) == <<"Failed to process data with Groq API", message>>

\* ['accused', 'victims', 'timeline'].includes(field)
IncludesArrayField(field) == BoolValue(field \in {"accused", "victims", "timeline"})

\* line 537: the value a missing field is filled with
DefaultFor(field) ==
    IF ArrayIsArray(IncludesArrayField(field)) THEN EmptyArray ELSE EmptyString

\* a repair step that fills nothing
FillNothing(fields, i) == fields

\* lines 535-539: fill the required fields the object does not have
RECURSIVE FillMissing(_, _)
FillMissing(fields, i) ==
    IF i > Len(requiredFields) THEN fields
    ELSE LET field == requiredFields[i]
             filled == IF field \in DOMAIN fields
                       THEN fields
                       ELSE [k \in (DOMAIN fields) \cup {field} |->
                               IF k = field THEN DefaultFor(field) ELSE fields[k]]
         IN FillMissing(filled, i + 1)

\* a repair that hands the whole cleaned response to JSON.parse
JsonSpanWhole(text) ==
    LET cleanedResponse == Trim(StripFences(Trim(text)))
    IN IF IndexOf(cleanedResponse, LB) = -1 \/ LastIndexOf(cleanedResponse, RB) = -1
       THEN [found |-> FALSE, jsonString |-> <<>>]
       ELSE [found |-> TRUE, jsonString |-> cleanedResponse]

\* lines 504-522: the span handed to JSON.parse, or the "no JSON object" error
JsonSpan(text) ==
    LET cleanedResponse == Trim(StripFences(Trim(text)))
        jsonStart == IndexOf(cleanedResponse, LB)
        jsonEnd == LastIndexOf(cleanedResponse, RB) + 1
    IN IF jsonStart = -1 \/ jsonEnd = 0
       THEN [found |-> FALSE, jsonString |-> <<>>]
       ELSE [found |-> TRUE,
             jsonString |-> Substring(cleanedResponse, jsonStart, jsonEnd)]

\* lines 499-552, the body of the try: the outcome for one completion
\* (kind "throw": the request failed; "absent": no content; "text": content)
GroqOutcome(completion) ==
    IF completion.kind = "throw"
    THEN [status |-> "error", error |-> GroqWrap(ErrGroqRequest), data |-> Null]
    ELSE IF completion.kind = "absent" \/ completion.text = <<>>
    THEN [status |-> "error", error |-> GroqWrap(ErrNoResponse), data |-> Null]
    ELSE LET span == JsonSpan(completion.text)
             parsedData == JSONParse(span.jsonString)
         IN IF ~span.found
            THEN [status |-> "error", error |-> GroqWrap(ErrNoJsonObject), data |-> Null]
            ELSE IF ~parsedData.ok
            THEN [status |-> "error", error |-> GroqWrap(ErrInvalidJsonFormat),
                  data |-> Null]
            ELSE IF parsedData.kind = "scalar"
            THEN [status |-> "error", error |-> GroqWrap(ErrInOperator), data |-> Null]
            ELSE [status |-> "ok", error |-> <<>>,
                  data |-> [kind |-> parsedData.kind,
                            fields |-> FillMissing(parsedData.fields, 1)]]

\* Array.prototype.sort((a, b) => b.content.length - a.content.length): stable
RECURSIVE InsertByLength(_, _)
InsertByLength(sorted, a) ==
    IF sorted = <<>> THEN <<a>>
    ELSE IF Head(sorted).content >= a.content
         THEN <<Head(sorted)>> \o InsertByLength(Tail(sorted), a)
         ELSE <<a>> \o sorted

RECURSIVE SortByLengthDesc(_)
SortByLengthDesc(articles) ==
    IF articles = <<>> THEN <<>>
    ELSE InsertByLength(SortByLengthDesc(SubSeq(articles, 1, Len(articles) - 1)),
                        articles[Len(articles)])

\* processArticlesWithGroq: its outcome, and scrapedData.articles as it leaves it
\* (line 413 sorts the caller's array in place, before the try)
processArticlesWithGroq(data, completion) ==
    [outcome |-> GroqOutcome(completion),
     scrapedData |-> [data EXCEPT !.articles = SortByLengthDesc(data.articles)]]

(***************************************************************************)
(* Content Extractor and Article Fetcher                                   *)
(*                                                                         *)
(* A page is described by what the extractor's regular expressions find:  *)
(* len: html.length; a: length of the cleaned longest article/main/div     *)
(* match (0: none); p: length of the joined paragraphs (-1: no <p> match); *)
(* d: length of the joined class-matched divs (-1: no match); m: length of *)
(* the meta description; throws: an exception is raised while extracting.  *)
(***************************************************************************)
MaxContent == 5000
TierAMin == 300
TierBMin == 200
TierCMin == 100
MinHtml == 100
MinArticle == 100

\* lines 114-127, Tier A: the text of the longest article / main / content div
TierA(doc) == doc.a

\* line 130: !content || content.length < 300
TierBTried(text) == text < TierAMin

\* lines 131-139, Tier B: the joined paragraphs replace content when a <p> matched
TierB(text, doc) == IF doc.p >= 0 THEN doc.p ELSE text

\* a ladder that tries the div tier whatever the paragraphs gave
TierCTriedAlways(text) == TRUE

\* line 142: !content || content.length < 200
TierCTried(text) == text < TierBMin

\* lines 143-154, Tier C: the joined divs replace content only when longer
TierC(text, doc) == IF doc.d >= 0 /\ doc.d > text THEN doc.d ELSE text

\* line 157: !content || content.length < 100
TierDTried(text) == text < TierCMin

\* line 158, Tier D: content = metaContent
TierD(text, doc) == doc.m

\* lines 115-159: the length of content after the fallback ladder
LadderContent(doc) ==
    LET tierA == TierA(doc)
        tierB == IF TierBTried(tierA) THEN TierB(tierA, doc) ELSE tierA
        tierC == IF TierCTried(tierB) THEN TierC(tierB, doc) ELSE tierB
        tierD == IF TierDTried(tierC) THEN TierD(tierC, doc) ELSE tierC
    IN tierD

\* a return without the substring
TruncateNothing(text) == text

\* line 166: content.substring(0, 5000)
Truncate(text) == Min(text, MaxContent)

\* extractArticleContent: the article returned
extractArticleContent(doc, url) ==
    [url |-> url, content |-> Truncate(LadderContent(doc))]

Fulfilled(value) == [status |-> "fulfilled", value |-> value]
Rejected == [status |-> "rejected", value |-> Null]
Pending == [status |-> "pending", value |-> Null]

\* a fetcher whose catch misses what is thrown after the headers arrived
ScrapeBodyUncaught(url, body) ==
    IF body.kind = "error" THEN Rejected
    ELSE IF body.html.len < MinHtml THEN Fulfilled(Null)
    ELSE IF body.html.throws THEN Rejected
    ELSE Fulfilled(extractArticleContent(body.html, url))

\* scrapeArticle, lines 202-216, after fetch() returned a 2xx response: how the
\* promise settles (body.kind "error": response.text() threw)
ScrapeBody(url, body) ==
    IF body.kind = "error" THEN Fulfilled(Null)
    ELSE IF body.html.len < MinHtml THEN Fulfilled(Null)
    ELSE IF body.html.throws THEN Fulfilled(Null)
    ELSE Fulfilled(extractArticleContent(body.html, url))

\* scrapeArticle: how the promise settles for one outcome of the request
\* kind "error": fetch() threw (network error, invalid URL);
\* kind "abort": the 15 s timer aborted the request; kind "response": headers came
scrapeArticle(url, outcome) ==
    IF outcome.kind \in {"error", "abort"} THEN Fulfilled(Null)
    ELSE IF ~outcome.ok THEN Fulfilled(Null)
    ELSE ScrapeBody(url, outcome.body)

\* lines 387-392: the fulfilled, non-null results with content longer than 100,
\* in the order of the promises
RECURSIVE SuccessfulArticles(_)
SuccessfulArticles(settled) ==
    IF settled = <<>> THEN <<>>
    ELSE LET r == Head(settled)
             rest == SuccessfulArticles(Tail(settled))
         IN IF r.status = "fulfilled" /\ r.value # Null
               /\ r.value.content > MinArticle
            THEN <<r.value>> \o rest
            ELSE rest

(***************************************************************************)
(* Web Search Client: normalisation, filter and selection                  *)
(*                                                                         *)
(* A link or display domain is a sequence of pieces; a domain name is one  *)
(* piece, so that includes(domain) is the presence of that piece.          *)
(***************************************************************************)
PageCount == 3
PageSize == 10
PauseMs == 300
MaxNonReddit == 16
MaxReddit == 2
MaxScrape == 18

blockDomains == {"tiktok.com", "pinterest.com", "facebook.com", "twitter.com",
                 "instagram.com", "youtube.com"}

\* String.prototype.toLowerCase, on one piece
LowerPiece(piece) ==
    CASE piece = "FACEBOOK.COM" -> "facebook.com"
      [] piece = "Reddit.com" -> "reddit.com"
      [] piece = "YouTube.com" -> "youtube.com"
      [] OTHER -> piece

ToLowerCase(s) == [i \in 1..Len(s) |-> LowerPiece(s[i])]

\* s.includes(domain)
Includes(s, domain) == \E i \in 1..Len(s) : s[i] = domain

\* lines 336-341: one item of the response as a GoogleSearchResult
NormalizeItem(item) ==
    [title |-> IF item.title = "" THEN "No title" ELSE item.title,
     link |-> item.link,
     snippet |-> IF item.snippet = "" THEN "No snippet available" ELSE item.snippet,
     displayLink |-> item.displayLink]

NormalizeItems(items) == [i \in 1..Len(items) |-> NormalizeItem(items[i])]

\* lines 310-334: does the response of a page pass every check of the loop body
PageSucceeds(o) ==
    /\ ~o.thrown
    /\ o.ok
    /\ ~o.html
    /\ o.validJSON
    /\ ~o.error

\* the results one page contributes to allResults
PageResults(o) == IF PageSucceeds(o) THEN NormalizeItems(o.items) ELSE <<>>

\* a search that finds the last entry with the link
FindLastIndexByLink(self, link) ==
    CHOOSE i \in 1..Len(self) :
        self[i].link = link /\ \A j \in (i + 1)..Len(self) : self[j].link # link

\* self.findIndex(r => r.link === result.link), 1-based
FindIndexByLink(self, link) ==
    CHOOSE i \in 1..Len(self) :
        self[i].link = link /\ \A j \in 1..(i - 1) : self[j].link # link

\* a blocklist test on the link and domain as written, without toLowerCase
IsBlockedCaseSensitive(r) ==
    \E blocked \in blockDomains :
        Includes(r.displayLink, blocked) \/ Includes(r.link, blocked)

\* lines 361-365
IsBlocked(r) ==
    LET url == ToLowerCase(r.link)
        domain == ToLowerCase(r.displayLink)
    IN \E blocked \in blockDomains : Includes(domain, blocked) \/ Includes(url, blocked)

\* the callback of the filter of lines 357-368
KeepResult(self, index) ==
    /\ index = FindIndexByLink(self, self[index].link)
    /\ ~IsBlocked(self[index])
    /\ self[index].title # ""
    /\ self[index].snippet # ""

RECURSIVE FilterFrom(_, _)
FilterFrom(self, index) ==
    IF index > Len(self) THEN <<>>
    ELSE IF KeepResult(self, index)
         THEN <<self[index]>> \o FilterFrom(self, index + 1)
         ELSE FilterFrom(self, index + 1)

FilteredResults(all) == FilterFrom(all, 1)

\* lines 372-378
IsReddit(r) ==
    \/ Includes(ToLowerCase(r.displayLink), "reddit.com")
    \/ Includes(ToLowerCase(r.link), "reddit.com")

\* Array.prototype.slice(0, n)
Slice(s, n) == SubSeq(s, 1, Min(n, Len(s)))

\* a selection that keeps every Reddit result
RedditResultsUncapped(filtered) == SelectSeq(filtered, IsReddit)

RedditResults(filtered) == Slice(SelectSeq(filtered, IsReddit), MaxReddit)

IsNotReddit(r) == ~IsReddit(r)
NonRedditResults(filtered) == SelectSeq(filtered, IsNotReddit)

\* line 380
ArticlesToScrape(filtered) ==
    Slice(Slice(NonRedditResults(filtered), MaxNonReddit) \o RedditResults(filtered),
          MaxScrape)

(***************************************************************************)
(* Image Search Client                                                     *)
(***************************************************************************)
MaxImages == 10

imageMarkers == {".jpg", ".jpeg", ".png", ".webp", ".gif", "image"}

\* lines 271-279: filter(Boolean) and the filter on the lower-cased link
ValidImageLink(link) ==
    LET url == ToLowerCase(link)
    IN /\ link # <<>>
       /\ ~Includes(url, "favicon")
       /\ ~Includes(url, "/logo")
       /\ ~Includes(url, "/icon")
       /\ \E marker \in imageMarkers : Includes(url, marker)

\* a searchImages without the check of imageData.error
searchImagesNoErrorCheck(credentials, o) ==
    IF ~credentials THEN <<>>
    ELSE IF o.thrown THEN <<>>
    ELSE IF ~o.ok THEN <<>>
    ELSE IF ~o.validJSON \/ o.html THEN <<>>
    ELSE IF ~o.hasItems THEN <<>>
    ELSE Slice(SelectSeq(o.links, ValidImageLink), MaxImages)

\* searchImages: never throws, every failure is the empty list
searchImages(credentials, o) ==
    IF ~credentials THEN <<>>
    ELSE IF o.thrown THEN <<>>
    ELSE IF ~o.ok THEN <<>>
    ELSE IF ~o.validJSON \/ o.html THEN <<>>
    ELSE IF o.error THEN <<>>
    ELSE IF ~o.hasItems THEN <<>>
    ELSE Slice(SelectSeq(o.links, ValidImageLink), MaxImages)

(***************************************************************************)
(* Scrape Orchestrator: searchGoogleAndScrape as a function of what the    *)
(* search API, the article hosts and the image API answer                  *)
(***************************************************************************)
EmptyScrapedData == [results |-> <<>>, articles |-> <<>>, images |-> <<>>]

ErrCredentials == <<"Google API credentials not configured">>

\* lines 302-353: allResults after the loop over the pages
RECURSIVE AllResultsOf(_)
AllResultsOf(pages) ==
    IF pages = <<>> THEN <<>>
    ELSE PageResults(Head(pages)) \o AllResultsOf(Tail(pages))

\* lines 384-385: the settled promises, one per selected result, in selection order
SettledArticles(toScrape, fetchOutcome) ==
    [i \in 1..Len(toScrape) |-> scrapeArticle(toScrape[i].link, fetchOutcome[i])]

searchGoogleAndScrape(credentials, pages, fetchOutcome, imageOutcome) ==
    IF ~credentials
    THEN [thrown |-> TRUE, error |-> ErrCredentials, data |-> EmptyScrapedData]
    ELSE LET filtered == FilteredResults(AllResultsOf(pages))
             toScrape == ArticlesToScrape(filtered)
         IN [thrown |-> FALSE, error |-> <<>>,
             data |-> [results |-> filtered,
                       articles |-> SuccessfulArticles(
                                        SettledArticles(toScrape, fetchOutcome)),
                       images |-> searchImages(credentials, imageOutcome)]]

(***************************************************************************)
(* Persistence Gateway                                                     *)
(***************************************************************************)
ErrEventNotFound == <<"Event not found", "the read returned an error">>
ErrMissingQuery == <<"Event not found or missing query">>
ErrNoArticles == <<"No articles found or scraped">>
ErrSave == <<"Failed to save event details", "the write returned an error">>
ErrMerge == <<"Cannot read properties of null (reading 'length')">>

\* a fetchEventFromDatabase without the check of line 567
fetchEventFromDatabaseUnchecked(row, readFails) ==
    IF readFails \/ ~row.present
    THEN [thrown |-> TRUE, error |-> ErrEventNotFound]
    ELSE [thrown |-> FALSE, error |-> <<>>]

\* fetchEventFromDatabase: .single() reports an absent row as an error
fetchEventFromDatabase(row, readFails) ==
    IF readFails \/ ~row.present
    THEN [thrown |-> TRUE, error |-> ErrEventNotFound]
    ELSE IF row.query = ""
    THEN [thrown |-> TRUE, error |-> ErrMissingQuery]
    ELSE [thrown |-> FALSE, error |-> <<>>]

\* lines 579-588: .single() gives the row only when exactly one row matches and
\* the read does not fail; the operation is an update then, an insert otherwise
ChooseDbOperation(rows, checkFails) ==
    IF Len(rows) = 1 /\ ~checkFails THEN "update" ELSE "insert"

\* the row of lines 607-618
InsertedRow(data, timestamp) ==
    [content |-> data, created_at |-> timestamp, updated_at |-> timestamp]

\* lines 592-602, on one row
UpdatedRow(row, data, timestamp) ==
    [row EXCEPT !.content = data, !.updated_at = timestamp]

\* the rows of event_id after the operation was applied by the store
ApplyDbOperation(rows, op, data, timestamp) ==
    IF op = "update"
    THEN [i \in 1..Len(rows) |-> UpdatedRow(rows[i], data, timestamp)]
    ELSE Append(rows, InsertedRow(data, timestamp))

\* lines 621-625: the rows after the awaited operation; a reported error means
\* the store did not apply it
WriteOutcome(rows, op, data, timestamp, saveFails) ==
    IF saveFails THEN rows ELSE ApplyDbOperation(rows, op, data, timestamp)

\* updateEventTimestamp: the events row after the touch
TouchedEvent(row, timestamp, updateFails) ==
    IF updateFails \/ ~row.present THEN row
    ELSE [row EXCEPT !.last_updated = timestamp]

ErrTouch == <<"Failed to update timestamp">>

\* an updateEventTimestamp that throws the error of the update
TouchThrowsOnError(updateFails) == updateFails

\* lines 636-638: updateError is logged with console.warn, nothing is thrown
TouchThrows(updateFails) == FALSE

(***************************************************************************)
(* Pipeline Controller: processEvent                                       *)
(***************************************************************************)
\* a controller that touches the timestamp before it persists
NextStageTouchFirst(stage) ==
    CASE stage = "load" -> "scrape"
      [] stage = "scrape" -> "synthesize"
      [] stage = "synthesize" -> "merge"
      [] stage = "merge" -> "touch"
      [] stage = "touch" -> "persist"
      [] stage = "persist" -> "done"

\* a controller that runs synthesis again after synthesis
NextStageRetry(stage) ==
    CASE stage = "load" -> "scrape"
      [] stage = "scrape" -> "synthesize"
      [] stage = "synthesize" -> "synthesize"
      [] stage = "merge" -> "persist"
      [] stage = "persist" -> "touch"
      [] stage = "touch" -> "done"

\* lines 644-681: the stage that follows each stage
NextStage(stage) ==
    CASE stage = "load" -> "scrape"
      [] stage = "scrape" -> "synthesize"
      [] stage = "synthesize" -> "merge"
      [] stage = "merge" -> "persist"
      [] stage = "persist" -> "touch"
      [] stage = "touch" -> "done"

\* a controller that lets an empty scrape through
NoArticlesUnchecked(data) == FALSE

\* line 651: !scrapedData.articles || scrapedData.articles.length === 0
NoArticles(data) == Len(data.articles) = 0

\* line 414: the articles that go into the prompt
MaxPrompt == 15

\* lines 412-414: topArticles
TopArticles(articles) == Slice(SortByLengthDesc(articles), MaxPrompt)

\* a source list made of the articles of the prompt only
ScrapedSourceUrlsOfPrompt(articles) ==
    LET top == TopArticles(articles)
    IN [i \in 1..Len(top) |-> top[i].url]

\* lines 660-662
ScrapedSourceUrls(articles) ==
    LET Usable(a) == a.url # <<>> /\ a.content > MinArticle
        usable == SelectSeq(articles, Usable)
    IN [i \in 1..Len(usable) |-> usable[i].url]

\* lines 664-668
StructuredData(analyzed, data) ==
    [kind |-> analyzed.kind, fields |-> analyzed.fields,
     sources |-> ScrapedSourceUrls(data.articles), images |-> data.images]

\* lines 671-674 read .length of details, timeline, accused and victims
MergeThrows(analyzed) ==
    \E f \in {"details", "timeline", "accused", "victims"} :
        f \notin DOMAIN analyzed.fields \/ analyzed.fields[f].type = "null"

(***************************************************************************)
(* What the collaborators may answer                                       *)
(***************************************************************************)
\* latest reading of the clock
MaxClock == 3

Html(len, a, p, d, m) == [len |-> len, a |-> a, p |-> p, d |-> d, m |-> m,
                          throws |-> FALSE]
HtmlLong == Html(2000, 400, -1, -1, 0)     \* an <article> of 400 characters
HtmlMid == Html(1000, 0, 150, -1, 0)       \* paragraphs only, 150 characters
HtmlThin == Html(500, 0, 40, -1, 60)       \* little text: meta description wins
HtmlTiny == Html(50, 0, -1, -1, 0)         \* a body under 100 characters
HtmlBroken == [Html(800, 400, -1, -1, 0) EXCEPT !.throws = TRUE]

NoBody == [kind |-> "none", html |-> HtmlTiny]
FetchThrows == [kind |-> "error", ok |-> FALSE, body |-> NoBody]
FetchAborted == [kind |-> "abort", ok |-> FALSE, body |-> NoBody]
FetchStatus(ok, body) == [kind |-> "response", ok |-> ok, body |-> body]
BodyText(doc) == [kind |-> "text", html |-> doc]
BodyFails == [kind |-> "error", html |-> HtmlTiny]

RawItem(title, link, snippet, displayLink) ==
    [title |-> title, link |-> link, snippet |-> snippet, displayLink |-> displayLink]
ItemA == RawItem("A", <<"a.org", "/1">>, "about a", <<"a.org">>)
ItemB == RawItem("B", <<"b.org", "/2">>, "about b", <<"b.org">>)

PageAnswer(thrown, ok, isHtml, validJSON, error, items) ==
    [thrown |-> thrown, ok |-> ok, html |-> isHtml, validJSON |-> validJSON,
     error |-> error, items |-> items]
PageOk(items) == PageAnswer(FALSE, TRUE, FALSE, TRUE, FALSE, items)
PageThrown == PageAnswer(TRUE, FALSE, FALSE, FALSE, FALSE, <<>>)
PageNon2xx == PageAnswer(FALSE, FALSE, FALSE, TRUE, FALSE, <<>>)
PageHtml == PageAnswer(FALSE, TRUE, TRUE, FALSE, FALSE, <<>>)
PageBadJson == PageAnswer(FALSE, TRUE, FALSE, FALSE, FALSE, <<>>)
PageApiError == PageAnswer(FALSE, TRUE, FALSE, TRUE, TRUE, <<>>)
NoPage == [PageThrown EXCEPT !.thrown = FALSE]
PageFailures == {PageThrown, PageNon2xx, PageHtml, PageBadJson, PageApiError}

ImageAnswer(thrown, ok, links) ==
    [thrown |-> thrown, ok |-> ok, html |-> FALSE, validJSON |-> TRUE,
     error |-> FALSE, hasItems |-> TRUE, links |-> links]
ImagesFail == ImageAnswer(TRUE, FALSE, <<>>)
ImagesOk == ImageAnswer(FALSE, TRUE, <<<<"cdn", ".jpg">>, <<"favicon", ".png">>>>)
ImagesNon2xx == [ImagesOk EXCEPT !.ok = FALSE]
ImagesHtml == [ImagesOk EXCEPT !.html = TRUE, !.validJSON = FALSE]
ImagesBadJson == [ImagesOk EXCEPT !.validJSON = FALSE]
ImagesApiError == [ImagesOk EXCEPT !.error = TRUE]
ImagesNoItems == [ImagesOk EXCEPT !.hasItems = FALSE]
NoImageResponse == [ImagesFail EXCEPT !.thrown = FALSE]
ImageFailures == {ImagesFail, ImagesNon2xx, ImagesHtml, ImagesBadJson, ImagesApiError,
                  ImagesNoItems}

Text(tokens) == [kind |-> "text", text |-> tokens]
CompletionThrows == [kind |-> "throw", text |-> <<>>]
CompletionAbsent == [kind |-> "absent", text |-> <<>>]
NoCompletion == [kind |-> "none", text |-> <<>>]

\* the answers tried in a run of the whole pipeline
PipelinePages == {PageNon2xx, PageOk(<<ItemA>>), PageOk(<<ItemB, ItemA>>)}
PipelineFetches == {FetchThrows, FetchStatus(TRUE, BodyText(HtmlLong)),
                    FetchStatus(TRUE, BodyText(HtmlMid)),
                    FetchStatus(TRUE, BodyText(HtmlThin))}
PipelineImages == ImageFailures \cup {ImagesOk}
PipelineCompletions ==
    {CompletionThrows, CompletionAbsent,
     Text(<<PROSE>>),
     Text(<<LB, PROSE, RB>>),
     Text(<<LB, "location", "details", "accused", "victims", "timeline", RB>>),
     Text(<<FENCE, JSONTAG, WS, LB, "details", RB, WS, FENCE>>),
     Text(<<LB, "details:null", RB>>)}

NoData == [kind |-> "none", fields |-> <<>>]
NoStructuredData == [kind |-> "none", fields |-> <<>>, sources |-> <<>>,
                     images |-> <<>>]
NoOperation == [op |-> "none", timestamp |-> 0]
NoResult == [status |-> "none", error |-> <<>>]
NoCalls == [dbRead |-> 0, search |-> 0, fetch |-> 0, image |-> 0, llm |-> 0,
            dbWrite |-> 0, revalidate |-> 0]

\* a row an earlier run left at time 0
OldRow == InsertedRow([kind |-> "object",
                       fields |-> FillMissing(<<>>, 1),
                       sources |-> <<>>, images |-> <<>>], 0)

EventRow(present, query) ==
    [present |-> present, query |-> query, last_updated |-> 0]

(***************************************************************************)
(* processEvent, one step per stage (saveEventDetails: one per await)      *)
(***************************************************************************)
EnterStage(stage) ==
    /\ pc' = stage
    /\ stagesEntered' = Append(stagesEntered, stage)

\* a stage throws: processEvent rejects with the error
Throw(error) ==
    /\ pc' = "failed"
    /\ result' = [status |-> "error", error |-> error]
    /\ UNCHANGED stagesEntered

\* the clock advances
Tick ==
    /\ now < MaxClock
    /\ now' = now + 1
    /\ UNCHANGED <<pc, stagesEntered, events, event_details, pre, scrapedData,
                   response, analyzedData, structuredData, dbOperation, result,
                   calls>>
    /\ UNCHANGED <<searchVars, batchVars, extraVars>>

\* processEvent(event_id) is called
Invoke ==
    /\ pc = "idle"
    /\ EnterStage("load")
    /\ pre' = [events |-> events, event_details |-> event_details]
    /\ UNCHANGED <<now, events, event_details, scrapedData, response, analyzedData,
                   structuredData, dbOperation, result, calls>>
    /\ UNCHANGED <<searchVars, batchVars, extraVars>>

\* line 644: fetchEventFromDatabase
LoadQuery ==
    /\ pc = "load"
    /\ \E readFails \in BOOLEAN :
          LET r == fetchEventFromDatabase(events, readFails)
          IN IF r.thrown
             THEN Throw(r.error)
             ELSE EnterStage(NextStage("load")) /\ UNCHANGED result
    /\ calls' = [calls EXCEPT !.dbRead = @ + 1]
    /\ UNCHANGED <<now, events, event_details, pre, scrapedData, response,
                   analyzedData, structuredData, dbOperation>>
    /\ UNCHANGED <<searchVars, batchVars, extraVars>>

\* lines 649-653: searchGoogleAndScrape and the check for zero articles
Scrape ==
    /\ pc = "scrape"
    /\ \E credentials \in BOOLEAN, pages \in [1..PageCount -> PipelinePages],
          imageOutcome \in PipelineImages :
          LET toScrape == ArticlesToScrape(FilteredResults(AllResultsOf(pages)))
          IN \E fetchOutcome \in [1..Len(toScrape) -> PipelineFetches] :
                LET r == searchGoogleAndScrape(credentials, pages, fetchOutcome,
                                               imageOutcome)
                IN /\ scrapedData' = r.data
                   /\ imageResponse' = IF credentials THEN imageOutcome
                                       ELSE imageResponse
                   /\ calls' = IF credentials
                               THEN [calls EXCEPT !.search = @ + PageCount,
                                                  !.fetch = @ + Len(toScrape),
                                                  !.image = @ + 1]
                               ELSE calls
                   /\ IF r.thrown THEN Throw(r.error)
                      ELSE IF NoArticles(r.data) THEN Throw(ErrNoArticles)
                      ELSE EnterStage(NextStage("scrape")) /\ UNCHANGED result
    /\ UNCHANGED <<now, events, event_details, pre, response, analyzedData,
                   structuredData, dbOperation>>
    /\ UNCHANGED <<searchVars, batchPc, fetches, scrapedArticles, successfulArticles,
                   extraVars>>

\* line 658: processArticlesWithGroq, for one completion of the LLM
Synthesize(completion) ==
    /\ pc = "synthesize"
    /\ LET r == processArticlesWithGroq(scrapedData, completion)
       IN /\ scrapedData' = r.scrapedData
          /\ response' = completion
          /\ IF r.outcome.status = "ok"
             THEN /\ analyzedData' = r.outcome.data
                  /\ EnterStage(NextStage("synthesize"))
                  /\ UNCHANGED result
             ELSE /\ Throw(r.outcome.error)
                  /\ UNCHANGED analyzedData
    /\ calls' = [calls EXCEPT !.llm = @ + 1]
    /\ UNCHANGED <<now, events, event_details, pre, structuredData, dbOperation>>
    /\ UNCHANGED <<searchVars, batchVars, extraVars>>

SynthesizeStage ==
    /\ pc = "synthesize"
    /\ \E completion \in PipelineCompletions : Synthesize(completion)

\* lines 660-674: sources and images are merged into the record
Merge ==
    /\ pc = "merge"
    /\ structuredData' = StructuredData(analyzedData, scrapedData)
    /\ IF MergeThrows(analyzedData)
       THEN Throw(ErrMerge)
       ELSE EnterStage(NextStage("merge")) /\ UNCHANGED result
    /\ UNCHANGED <<now, events, event_details, pre, scrapedData, response,
                   analyzedData, dbOperation, calls>>
    /\ UNCHANGED <<searchVars, batchVars, extraVars>>

\* saveEventDetails, lines 579-619: the existence check picks the operation
PersistCheck ==
    /\ pc = "persist"
    /\ \E checkFails \in BOOLEAN :
          dbOperation' = [op |-> ChooseDbOperation(event_details, checkFails),
                          timestamp |-> now]
    /\ pc' = "persist_write"
    /\ calls' = [calls EXCEPT !.dbRead = @ + 1]
    /\ UNCHANGED <<stagesEntered, now, events, event_details, pre, scrapedData,
                   response, analyzedData, structuredData, result>>
    /\ UNCHANGED <<searchVars, batchVars, extraVars>>

\* saveEventDetails, lines 621-625: the store applies the operation or rejects it
PersistWrite ==
    /\ pc = "persist_write"
    /\ \E saveFails \in BOOLEAN :
          /\ event_details' = WriteOutcome(event_details, dbOperation.op,
                                           structuredData, dbOperation.timestamp,
                                           saveFails)
          /\ IF saveFails
             THEN Throw(ErrSave)
             ELSE EnterStage(NextStage("persist")) /\ UNCHANGED result
    /\ calls' = [calls EXCEPT !.dbWrite = @ + 1]
    /\ UNCHANGED <<now, events, pre, scrapedData, response, analyzedData,
                   structuredData, dbOperation>>
    /\ UNCHANGED <<searchVars, batchVars, extraVars>>

\* line 677: updateEventTimestamp logs a failure and returns; lines 681-685
TouchTimestamp ==
    /\ pc = "touch"
    /\ \E updateFails \in BOOLEAN :
          /\ events' = TouchedEvent(events, now, updateFails)
          /\ IF TouchThrows(updateFails)
             THEN Throw(ErrTouch)
             ELSE /\ EnterStage(NextStage("touch"))
                  /\ result' = [status |-> "ok", error |-> <<>>]
    /\ calls' = [calls EXCEPT !.dbWrite = @ + 1]
    /\ UNCHANGED <<now, event_details, pre, scrapedData, response, analyzedData,
                   structuredData, dbOperation>>
    /\ UNCHANGED <<searchVars, batchVars, extraVars>>

SearchIdle ==
    /\ searchPc = "off" /\ page = 0 /\ requests = <<>> /\ webResponse = NoPage
    /\ allResults = <<>> /\ inFlight = 0 /\ pauses = <<>>
    /\ filteredResults = <<>> /\ articlesToScrape = <<>>

BatchIdle ==
    /\ batchPc = "off" /\ fetches = <<>> /\ scrapedArticles = <<>>
    /\ successfulArticles = <<>> /\ imageResponse = NoImageResponse

PipelineFresh ==
    /\ scrapedData = EmptyScrapedData
    /\ response = NoCompletion
    /\ analyzedData = NoData
    /\ structuredData = NoStructuredData
    /\ dbOperation = NoOperation
    /\ result = NoResult
    /\ calls = NoCalls

Init ==
    /\ ExtraIdle
    /\ pc = "idle"
    /\ stagesEntered = <<>>
    /\ now = 1
    /\ events \in {EventRow(FALSE, ""), EventRow(TRUE, ""), EventRow(TRUE, "q")}
    /\ event_details \in {<<>>, <<OldRow>>}
    /\ pre = [events |-> events, event_details |-> event_details]
    /\ PipelineFresh
    /\ SearchIdle
    /\ BatchIdle

Next ==
    \/ Tick
    \/ Invoke
    \/ LoadQuery
    \/ Scrape
    \/ SynthesizeStage
    \/ Merge
    \/ PersistCheck
    \/ PersistWrite
    \/ TouchTimestamp

Spec == Init /\ [][Next]_vars

(***************************************************************************)
(* The Synthesis Engine on its own: every completion of bounded length     *)
(***************************************************************************)
SynthAlphabet == {LB, RB, PROSE, NUM, ARR, WS, FENCE, JSONTAG, "location"}

FreeTexts == UNION {[1..n -> SynthAlphabet] : n \in 0..MaxLen}

\* an object with the members of one subset of the required fields
MembersOf(S) == SelectSeq(requiredFields, LAMBDA f : f \in S)
ObjectTexts ==
    {<<LB>> \o MembersOf(S) \o <<RB>> : S \in SUBSET RequiredFieldSet}
        \cup {<<LB, "details:null", RB>>, <<LB, "details", "details:null", RB>>}

\* a valid object, with or without fences, with or without prose that holds no
\* brace before the fence, between fence and object, after the object and
\* after the closing fence
WrappedObjects ==
    {<<LB, RB>>, <<LB, "location", RB>>, <<LB, "details:null", RB>>,
     <<LB>> \o requiredFields \o <<RB>>}
LeadingProse == {<<>>, <<WS>>, <<PROSE, WS>>}
OpeningFences == {<<>>, <<FENCE, WS>>, <<FENCE, JSONTAG, WS>>}
InnerProse == {<<>>, <<PROSE, WS>>}
ClosingFences == {<<>>, <<FENCE>>, <<WS, FENCE, WS>>}
TrailingProse == {<<>>, <<WS>>, <<WS, PROSE>>}
WrappedTexts ==
    {lead \o open \o before \o obj \o after \o close \o trail :
        lead \in LeadingProse, open \in OpeningFences, before \in InnerProse,
        obj \in WrappedObjects, after \in {<<>>, <<WS, PROSE>>},
        close \in ClosingFences, trail \in TrailingProse}

SynthCompletions ==
    {CompletionThrows, CompletionAbsent}
        \cup {Text(t) : t \in FreeTexts \cup ObjectTexts \cup WrappedTexts}

Article(url, len) == [url |-> url, content |-> len]
SynthScraped ==
    [results |-> NormalizeItems(<<ItemA, ItemB>>),
     articles |-> <<Article(ItemA.link, 150), Article(ItemB.link, 400)>>,
     images |-> <<>>]

InitSynth ==
    /\ ExtraIdle
    /\ pc = "synthesize"
    /\ stagesEntered = <<"load", "scrape", "synthesize">>
    /\ now = 1
    /\ events = EventRow(TRUE, "q")
    /\ event_details = <<>>
    /\ pre = [events |-> events, event_details |-> event_details]
    /\ scrapedData = SynthScraped
    /\ response = NoCompletion
    /\ analyzedData = NoData
    /\ structuredData = NoStructuredData
    /\ dbOperation = NoOperation
    /\ result = NoResult
    /\ calls = [NoCalls EXCEPT !.dbRead = 1, !.search = PageCount, !.fetch = 2,
                               !.image = 1]
    /\ SearchIdle
    /\ batchPc = "off" /\ fetches = <<>> /\ scrapedArticles = <<>>
    /\ successfulArticles = <<>> /\ imageResponse = ImagesFail

SynthesizeAny ==
    /\ pc = "synthesize"
    /\ \E completion \in SynthCompletions : Synthesize(completion)

NextSynth ==
    \/ SynthesizeAny
    \/ Merge

SpecSynth == InitSynth /\ [][NextSynth]_vars

(***************************************************************************)
(* The Web Search Client on its own: the page loop, one step per await     *)
(***************************************************************************)
\* most items in one page of the model
MaxPageItems == 2

ItemR == RawItem("R", <<"old.", "Reddit.com", "/r/3">>, "thread", <<"reddit.com">>)
SearchItems == {ItemA, ItemB, ItemR}
SearchItemLists == UNION {[1..n -> SearchItems] : n \in 0..MaxPageItems}
SearchPages == PageFailures \cup {PageOk(items) : items \in SearchItemLists}

\* line 303
StartIndex(p) == (p - 1) * PageSize + 1

\* a loop that gives up at the first page that fails
AfterFailedPageAbort(p) == PageCount + 1

\* lines 319, 326, 333, 351: continue goes on with the next page
AfterFailedPage(p) == p + 1

\* lines 295-297: the credentials are checked before the loop
CheckCredentials ==
    /\ searchPc = "start"
    /\ \E credentials \in BOOLEAN :
          searchPc' = IF credentials THEN "request" ELSE "thrown"
    /\ UNCHANGED <<page, requests, webResponse, allResults, inFlight, pauses,
                   filteredResults, articlesToScrape>>
    /\ UNCHANGED <<pipelineVars, batchVars, extraVars>>

\* lines 302-315: the request of the page is sent
SendPageRequest ==
    /\ searchPc = "request"
    /\ page <= PageCount
    /\ requests' = Append(requests, StartIndex(page))
    /\ inFlight' = inFlight + 1
    /\ searchPc' = "await"
    /\ UNCHANGED <<page, webResponse, allResults, pauses, filteredResults,
                   articlesToScrape>>
    /\ UNCHANGED <<pipelineVars, batchVars, extraVars>>

\* where the loop goes once the page is dealt with
LoopTo(p) ==
    /\ page' = p
    /\ searchPc' = IF p > PageCount THEN "filter" ELSE "request"

\* lines 317-352: the answer of the page arrives
ReceivePage ==
    /\ searchPc = "await"
    /\ \E o \in SearchPages :
          /\ webResponse' = o
          /\ allResults' = allResults \o PageResults(o)
          /\ IF PageSucceeds(o)
             THEN IF page < PageCount
                  THEN page' = page /\ searchPc' = "pause"
                  ELSE LoopTo(page + 1)
             ELSE LoopTo(AfterFailedPage(page))
    /\ inFlight' = inFlight - 1
    /\ UNCHANGED <<requests, pauses, filteredResults, articlesToScrape>>
    /\ UNCHANGED <<pipelineVars, batchVars, extraVars>>

\* lines 346-348: the pause after a page that succeeded
PausePassed ==
    /\ searchPc = "pause"
    /\ pauses' = Append(pauses, page)
    /\ LoopTo(page + 1)
    /\ UNCHANGED <<requests, webResponse, allResults, inFlight, filteredResults,
                   articlesToScrape>>
    /\ UNCHANGED <<pipelineVars, batchVars, extraVars>>

\* lines 357-380: filter and selection
FilterAndSelect ==
    /\ searchPc = "filter"
    /\ filteredResults' = FilteredResults(allResults)
    /\ articlesToScrape' = ArticlesToScrape(FilteredResults(allResults))
    /\ searchPc' = "scrape"
    /\ UNCHANGED <<page, requests, webResponse, allResults, inFlight, pauses>>
    /\ UNCHANGED <<pipelineVars, batchVars, extraVars>>

\* processEvent waits in searchGoogleAndScrape
PipelineInScrape ==
    /\ pc = "scrape"
    /\ stagesEntered = <<"load", "scrape">>
    /\ now = 1
    /\ events = EventRow(TRUE, "q")
    /\ event_details = <<>>
    /\ pre = [events |-> events, event_details |-> event_details]
    /\ PipelineFresh

InitSearch ==
    /\ ExtraIdle
    /\ PipelineInScrape
    /\ searchPc = "start" /\ page = 1 /\ requests = <<>> /\ webResponse = NoPage
    /\ allResults = <<>> /\ inFlight = 0 /\ pauses = <<>>
    /\ filteredResults = <<>> /\ articlesToScrape = <<>>
    /\ BatchIdle

NextSearch ==
    \/ CheckCredentials
    \/ SendPageRequest
    \/ ReceivePage
    \/ PausePassed
    \/ FilterAndSelect

SpecSearch == InitSearch /\ [][NextSearch]_vars

(***************************************************************************)
(* Filter and selection on their own: lines 357-380 on the results of a    *)
(* finished page loop                                                      *)
(***************************************************************************)
\* most non-Reddit and Reddit hits of a long result list, longest free list
MaxHits == 18
MaxRedditHits == 3
MaxFree == 3

\* hits with links that differ in the length of the path
Path(n) == [i \in 1..n |-> "/p"]
NewsItem(n) == RawItem("N", <<"news.org">> \o Path(n), "S", <<"news.org">>)
RedditItem(n) == RawItem("R", <<"Reddit.com">> \o Path(n), "S", <<"reddit.com">>)
NewsHits(n) == [i \in 1..n |-> NewsItem(i)]
RedditHits(r) == [i \in 1..r |-> RedditItem(i)]

RECURSIVE Interleave(_, _)
Interleave(a, b) ==
    IF a = <<>> THEN b
    ELSE IF b = <<>> THEN a
    ELSE <<Head(a), Head(b)>> \o Interleave(Tail(a), Tail(b))

HitLists ==
    UNION {{NewsHits(n) \o RedditHits(r), RedditHits(r) \o NewsHits(n),
            Interleave(NewsHits(n), RedditHits(r))} :
           n \in 0..MaxHits, r \in 0..MaxRedditHits}

\* the same link as ItemA under another title, blocked hits, a hit with no title
ItemA2 == RawItem("A again", <<"a.org", "/1">>, "more about a", <<"m.a.org">>)
ItemF == RawItem("F", <<"fb.me", "/4">>, "post", <<"www.", "FACEBOOK.COM">>)
ItemY == RawItem("Y", <<"www.", "YouTube.com", "/5">>, "video", <<"yt">>)
ItemBare == RawItem("", <<"c.org", "/6">>, "", <<"c.org">>)
SelectItems == {ItemA, ItemA2, ItemB, ItemR, ItemF, ItemY, ItemBare}
FreeHitLists == UNION {[1..n -> SelectItems] : n \in 0..MaxFree}

\* the items of the third page: what follows the first two pages of PageSize items
ThirdPage(items) ==
    IF Len(items) > 2 * PageSize
    THEN SubSeq(items, 2 * PageSize + 1, Len(items))
    ELSE <<>>

\* the page loop is over with the three pages answered
InitSelect ==
    /\ ExtraIdle
    /\ PipelineInScrape
    /\ \E items \in HitLists \cup FreeHitLists :
          /\ allResults = NormalizeItems(items)
          /\ webResponse = PageOk(ThirdPage(items))
    /\ searchPc = "filter" /\ page = PageCount + 1
    /\ requests = [p \in 1..PageCount |-> StartIndex(p)]
    /\ inFlight = 0 /\ pauses = [p \in 1..(PageCount - 1) |-> p]
    /\ filteredResults = <<>> /\ articlesToScrape = <<>>
    /\ BatchIdle

NextSelect == FilterAndSelect

SpecSelect == InitSelect /\ [][NextSelect]_vars

(***************************************************************************)
(* The scrape batch on its own: lines 384-403, one step per await of each  *)
(* scrapeArticle call                                                      *)
(***************************************************************************)
\* largest batch of the model
MaxBatch == 3

SiteName(n) ==
    CASE n = 1 -> "s1.org" [] n = 2 -> "s2.org" [] n = 3 -> "s3.org"
      [] n = 4 -> "s4.org" [] OTHER -> "s5.org"
BatchItem(n) == RawItem("T", <<SiteName(n), "/n">>, "S", <<SiteName(n)>>)
Batch(n) == NormalizeItems([i \in 1..n |-> BatchItem(i)])

\* what fetch() may do, and what the body of a 2xx response may be
HeaderOutcomes == {FetchThrows, FetchAborted, FetchStatus(FALSE, NoBody),
                   FetchStatus(TRUE, NoBody)}
Bodies == {BodyFails, BodyText(HtmlTiny), BodyText(HtmlBroken), BodyText(HtmlThin),
           BodyText(HtmlMid), BodyText(HtmlLong)}

Fetching == [state |-> "fetching", outcome |-> FetchStatus(TRUE, NoBody)]

\* a collector that fills the slots in the order of completion
SettleNextFree(slots, i, settlement) ==
    LET free == CHOOSE k \in 1..Len(slots) :
                    slots[k].status = "pending"
                    /\ \A j \in 1..(k - 1) : slots[j].status # "pending"
    IN [slots EXCEPT ![free] = settlement]

\* Promise.allSettled keeps the result of promise i at index i
SettleSlot(slots, i, settlement) == [slots EXCEPT ![i] = settlement]

\* a barrier that opens at the first settled promise
AnySettled(slots) ==
    Len(slots) = 0 \/ \E i \in 1..Len(slots) : slots[i].status # "pending"

\* line 385: await Promise.allSettled(scrapePromises)
AllSettled(slots) == \A i \in 1..Len(slots) : slots[i].status # "pending"

\* line 384: every scrapeArticle call is started, each runs to its await fetch()
LaunchFetches ==
    /\ batchPc = "launch"
    /\ fetches' = [i \in 1..Len(articlesToScrape) |-> Fetching]
    /\ scrapedArticles' = [i \in 1..Len(articlesToScrape) |-> Pending]
    /\ batchPc' = "settling"
    /\ UNCHANGED <<successfulArticles, imageResponse>>
    /\ UNCHANGED <<pipelineVars, searchVars, extraVars>>

\* lines 178-200 of call i: fetch() throws, is aborted by the timer, or returns
FetchReturns(i) ==
    /\ batchPc = "settling"
    /\ i \in 1..Len(fetches)
    /\ fetches[i].state = "fetching"
    /\ \E outcome \in HeaderOutcomes :
          IF outcome.kind = "response" /\ outcome.ok
          THEN /\ fetches' = [fetches EXCEPT ![i] = [state |-> "reading",
                                                     outcome |-> outcome]]
               /\ UNCHANGED scrapedArticles
          ELSE /\ fetches' = [fetches EXCEPT ![i] = [state |-> "settled",
                                                     outcome |-> outcome]]
               /\ scrapedArticles' =
                      SettleSlot(scrapedArticles, i,
                                 scrapeArticle(articlesToScrape[i].link, outcome))
    /\ UNCHANGED <<batchPc, successfulArticles, imageResponse>>
    /\ UNCHANGED <<pipelineVars, searchVars, extraVars>>

\* lines 202-216 of call i: response.text() returns or throws
BodyReturns(i) ==
    /\ batchPc = "settling"
    /\ i \in 1..Len(fetches)
    /\ fetches[i].state = "reading"
    /\ \E body \in Bodies :
          LET outcome == FetchStatus(TRUE, body)
          IN /\ fetches' = [fetches EXCEPT ![i] = [state |-> "settled",
                                                   outcome |-> outcome]]
             /\ scrapedArticles' =
                    SettleSlot(scrapedArticles, i,
                               scrapeArticle(articlesToScrape[i].link, outcome))
    /\ UNCHANGED <<batchPc, successfulArticles, imageResponse>>
    /\ UNCHANGED <<pipelineVars, searchVars, extraVars>>

\* lines 385-394: the barrier opens and the results are filtered
PassBarrier ==
    /\ batchPc = "settling"
    /\ AllSettled(scrapedArticles)
    /\ successfulArticles' = SuccessfulArticles(scrapedArticles)
    /\ batchPc' = "images"
    /\ UNCHANGED <<fetches, scrapedArticles, imageResponse>>
    /\ UNCHANGED <<pipelineVars, searchVars, extraVars>>

\* lines 396-403: searchImages, then the bundle is returned
ImageSearch ==
    /\ batchPc = "images"
    /\ \E imageOutcome \in PipelineImages :
          /\ imageResponse' = imageOutcome
          /\ scrapedData' = [results |-> filteredResults,
                             articles |-> successfulArticles,
                             images |-> searchImages(TRUE, imageOutcome)]
    /\ batchPc' = "returned"
    /\ UNCHANGED <<fetches, scrapedArticles, successfulArticles>>
    /\ UNCHANGED <<pc, stagesEntered, now, events, event_details, pre, response,
                   analyzedData, structuredData, dbOperation, result, calls>>
    /\ UNCHANGED <<searchVars, extraVars>>

\* result lists the filter leaves as they are: up to MaxBatch news hits, and one
\* with more Reddit hits than are scraped
BatchInputs ==
    {Batch(n) : n \in 0..MaxBatch}
       \cup {NormalizeItems(RedditHits(MaxReddit + 1))}

InitBatch ==
    /\ ExtraIdle
    /\ PipelineInScrape
    /\ searchPc = "scrape" /\ page = PageCount + 1
    /\ requests = [p \in 1..PageCount |-> StartIndex(p)]
    /\ webResponse = PageOk(<<>>)
    /\ inFlight = 0 /\ pauses = [p \in 1..(PageCount - 1) |-> p]
    /\ \E results \in BatchInputs :
          /\ allResults = results
          /\ filteredResults = FilteredResults(results)
          /\ articlesToScrape = ArticlesToScrape(FilteredResults(results))
    /\ batchPc = "launch" /\ fetches = <<>> /\ scrapedArticles = <<>>
    /\ successfulArticles = <<>> /\ imageResponse = NoImageResponse

NextBatch ==
    \/ LaunchFetches
    \/ \E i \in 1..MaxBatch : FetchReturns(i)
    \/ \E i \in 1..MaxBatch : BodyReturns(i)
    \/ PassBarrier
    \/ ImageSearch

SpecBatch == InitBatch /\ [][NextBatch]_vars

\* the event loop runs a continuation that is ready; the 15 s timer ends every
\* fetch() that has not returned; nothing bounds response.text()
SpecBatchFair ==
    /\ SpecBatch
    /\ WF_vars(PassBarrier)
    /\ WF_vars(ImageSearch)
    /\ \A i \in 1..MaxBatch : WF_vars(FetchReturns(i))

(***************************************************************************)
(* processEvent from the return of searchGoogleAndScrape on: synthesis,    *)
(* merge and persistence for result lists and fetch outcomes of every      *)
(* order, with the batch as it settled                                     *)
(***************************************************************************)
\* longest result list drawn freely
MaxArticles == 3

SourceItems == {ItemA, ItemB, ItemBare}
SourceHitLists ==
    {l \in UNION {[1..n -> SourceItems] : n \in 1..MaxArticles} :
        \A i, j \in 1..Len(l) : i # j => l[i] # l[j]}

\* more hits than the prompt takes and more Reddit hits than are scraped
LongHitList == NewsHits(MaxPrompt + 1) \o RedditHits(MaxReddit + 1)

SourceFetches == {FetchThrows, FetchStatus(TRUE, BodyText(HtmlMid)),
                  FetchStatus(TRUE, BodyText(HtmlLong))}

\* what the hosts answer: any outcome per hit of a short list; for the long list
\* the news hosts answer and the Reddit fetches fail
SourceOutcomes(toScrape) ==
    IF Len(toScrape) <= MaxArticles
    THEN [1..Len(toScrape) -> SourceFetches]
    ELSE {[i \in 1..Len(toScrape) |->
              IF IsReddit(toScrape[i]) THEN FetchThrows
              ELSE FetchStatus(TRUE, BodyText(HtmlLong))]}

\* searchGoogleAndScrape has returned a bundle with at least one article
InitSources ==
    /\ ExtraIdle
    /\ pc = "synthesize"
    /\ stagesEntered = <<"load", "scrape", "synthesize">>
    /\ now = 1
    /\ events = EventRow(TRUE, "q")
    /\ event_details = <<>>
    /\ pre = [events |-> events, event_details |-> event_details]
    /\ response = NoCompletion
    /\ analyzedData = NoData
    /\ structuredData = NoStructuredData
    /\ dbOperation = NoOperation
    /\ result = NoResult
    /\ searchPc = "scrape" /\ page = PageCount + 1
    /\ requests = [p \in 1..PageCount |-> StartIndex(p)]
    /\ inFlight = 0 /\ pauses = [p \in 1..(PageCount - 1) |-> p]
    /\ batchPc = "returned"
    /\ \E items \in SourceHitLists \cup {LongHitList} :
          /\ allResults = NormalizeItems(items)
          /\ webResponse = PageOk(ThirdPage(items))
    /\ filteredResults = FilteredResults(allResults)
    /\ articlesToScrape = ArticlesToScrape(filteredResults)
    /\ \E fetchOutcome \in SourceOutcomes(articlesToScrape) :
          /\ fetches = [i \in 1..Len(articlesToScrape) |->
                           [state |-> "settled", outcome |-> fetchOutcome[i]]]
          /\ scrapedArticles = SettledArticles(articlesToScrape, fetchOutcome)
    /\ successfulArticles = SuccessfulArticles(scrapedArticles)
    /\ successfulArticles # <<>>
    /\ imageResponse \in {ImagesFail, ImagesOk}
    /\ scrapedData = [results |-> filteredResults,
                      articles |-> successfulArticles,
                      images |-> searchImages(TRUE, imageResponse)]
    /\ calls = [NoCalls EXCEPT !.dbRead = 1, !.search = PageCount,
                               !.fetch = Len(articlesToScrape), !.image = 1]

NextSources ==
    \/ SynthesizeStage
    \/ Merge
    \/ PersistCheck
    \/ PersistWrite
    \/ TouchTimestamp

SpecSources == InitSources /\ [][NextSources]_vars

(***************************************************************************)
(* Claims                                                                  *)
(***************************************************************************)
Last(s) == s[Len(s)]
IsPrefix(s, t) == Len(s) <= Len(t) /\ s = SubSeq(t, 1, Len(s))

StageOrder == <<"load", "scrape", "synthesize", "merge", "persist", "touch", "done">>
FallibleStages == {"load", "scrape", "synthesize", "merge", "persist"}
StageOfPc ==
    CASE pc = "persist_write" -> "persist"
      [] OTHER -> pc

C1_StagesInOrder ==
    /\ IsPrefix(stagesEntered, StageOrder)
    /\ pc \notin {"idle", "failed"} => Last(stagesEntered) = StageOfPc
    /\ pc = "done" => stagesEntered = StageOrder /\ result.status = "ok"
    /\ pc = "failed" =>
          /\ Last(stagesEntered) \in FallibleStages
          /\ result.status = "error"
          /\ result.error # <<>>

C1_FailureIsFinal ==
    pc = "failed" =>
       /\ pc' = "failed"
       /\ stagesEntered' = stagesEntered
       /\ result' = result

\* C1: in one invocation of processEvent the stages are entered in the order
\* load, scrape, synthesize, merge, persist, touch, done, each at most once; when
\* a stage from load to persist fails no later stage is entered and the
\* invocation ends with an error.
C1_LinearStages == [](C1_StagesInOrder) /\ [][C1_FailureIsFinal]_vars

C1_Witness ==
    /\ pc = "failed"
    /\ Last(stagesEntered) = "persist"
    /\ result.error = ErrSave

\* C2: whenever the invocation ends with an error, the event_details rows and the
\* events row of event_id are what they were when the invocation started.
C2_NoPartialWrite ==
    pc = "failed" =>
       /\ event_details = pre.event_details
       /\ events = pre.events

C2_Witness ==
    /\ pc = "failed"
    /\ result.error = ErrSave
    /\ dbOperation.op = "update"
    /\ event_details = <<OldRow>>

\* C3: whenever processArticlesWithGroq returns, the record has all five keys
\* location, details, accused, victims, timeline, whichever subset the model
\* emitted; so has every record that reaches saveEventDetails.
C3_AllFiveKeys ==
    /\ pc = "merge" => RequiredFieldSet \subseteq DOMAIN analyzedData.fields
    /\ pc = "persist" => RequiredFieldSet \subseteq DOMAIN structuredData.fields

C3_Witness ==
    /\ pc = "persist"
    /\ response = Text(<<LB, "location", RB>>)

\* the keys of the object the model emitted
EmittedKeys(text) == DOMAIN JSONParse(JsonSpan(text).jsonString).fields
ArrayFields == {"accused", "victims", "timeline"}

\* C4 as claimed: a missing required field is filled by type, accused, victims and
\* timeline with an empty array, location and details with the empty string.
C4_DefaultsByType ==
    pc = "merge" =>
       \A f \in RequiredFieldSet \ EmittedKeys(response.text) :
           analyzedData.fields[f] = IF f \in ArrayFields THEN EmptyArray
                                    ELSE EmptyString

\* is there a '{' with a '}' after it
HasBracePair(text) ==
    \E i \in 1..Len(text) : \E j \in (i + 1)..Len(text) :
        text[i] = LB /\ text[j] = RB

Answered == pc \in {"merge", "failed"} /\ response.kind # "none"

\* C5 as claimed: no content gives the 'No response' error, every response with
\* no '{' ... '}' pair the 'no JSON object found' error, a '{...}' span that is
\* not valid JSON the 'Invalid JSON format' error, and the wrapped errors differ.
C5_ThreeErrors ==
    /\ Cardinality({GroqWrap(ErrNoResponse), GroqWrap(ErrNoJsonObject),
                    GroqWrap(ErrInvalidJsonFormat)}) = 3
    /\ Answered /\ (response.kind = "absent" \/
                    (response.kind = "text" /\ response.text = <<>>))
          => pc = "failed" /\ result.error = GroqWrap(ErrNoResponse)
    /\ Answered /\ response.kind = "text" /\ response.text # <<>>
          /\ ~HasBracePair(response.text)
          => pc = "failed" /\ result.error = GroqWrap(ErrNoJsonObject)
    /\ Answered /\ response.kind = "text" /\ HasBracePair(response.text)
          /\ ~JSONParse(JsonSpan(response.text).jsonString).ok
          => pc = "failed" /\ result.error = GroqWrap(ErrInvalidJsonFormat)

ScrapeFinished ==
    /\ \E i \in 1..Len(stagesEntered) : stagesEntered[i] = "scrape"
    /\ pc # "scrape"

NoUsableArticle ==
    \A i \in 1..Len(scrapedData.articles) :
        scrapedData.articles[i].content <= MinArticle

\* C6: if after scraping no article with content longer than 100 characters
\* remains, processEvent fails with an error, the LLM is never invoked and nothing
\* is written to event_details or events.
C6_ZeroArticlesFatal ==
    ScrapeFinished /\ NoUsableArticle =>
       /\ pc = "failed"
       /\ result.status = "error"
       /\ calls.llm = 0
       /\ response = NoCompletion
       /\ calls.dbWrite = 0
       /\ event_details = pre.event_details
       /\ events = pre.events

C6_Witness ==
    /\ pc = "failed"
    /\ result.error = ErrNoArticles
    /\ calls.fetch > 0
    /\ scrapedData.results # <<>>

BatchSize == Len(articlesToScrape)
PastBarrier == batchPc \in {"images", "returned"}
EveryFetchSettled ==
    /\ batchPc = "settling"
    /\ \A i \in 1..Len(fetches) : fetches[i].state = "settled"

C7_BarrierOnlyWhenSettled ==
    PastBarrier =>
       /\ \A i \in 1..BatchSize : fetches[i].state = "settled"
       /\ Len(successfulArticles) <= BatchSize

\* a step of one call touches neither the state nor the slot of another call
C7_SiblingsUntouched ==
    batchPc = "settling" /\ batchPc' = "settling" =>
       \A i \in 1..BatchSize :
          fetches'[i] # fetches[i] =>
             \A j \in (1..BatchSize) \ {i} :
                /\ fetches'[j] = fetches[j]
                /\ scrapedArticles'[j] = scrapedArticles[j]

\* C7: once every fetch of a batch has resolved or failed, the orchestrator passes
\* the all-settle barrier and goes on to the image search, also when all fetches
\* fail or time out; it passes the barrier no earlier; a fetch that fails or is
\* slow changes nothing of a sibling; the successful-article count is at most N.
C7_BatchCompletes ==
    /\ EveryFetchSettled ~> PastBarrier
    /\ [](C7_BarrierOnlyWhenSettled)
    /\ [][C7_SiblingsUntouched]_vars

C7_Witness ==
    /\ batchPc = "images"
    /\ BatchSize >= 2
    /\ \A i \in 1..BatchSize : scrapedArticles[i].value = Null
    /\ \E i \in 1..BatchSize : fetches[i].outcome.kind = "abort"
    /\ \E i \in 1..BatchSize : fetches[i].outcome.kind = "error"

\* did the fetch of the i-th selected URL produce a usable article
Produced(i) ==
    LET o == fetches[i].outcome
    IN /\ o.kind = "response" /\ o.ok
       /\ o.body.kind = "text"
       /\ o.body.html.len >= MinHtml
       /\ ~o.body.html.throws
       /\ Min(LadderContent(o.body.html), MaxContent) > MinArticle

ProducedArticle(i) ==
    Article(articlesToScrape[i].link,
            Min(LadderContent(fetches[i].outcome.body.html), MaxContent))

ExpectedArticles ==
    LET idx == SelectSeq([i \in 1..BatchSize |-> i], Produced)
    IN [k \in 1..Len(idx) |-> ProducedArticle(idx[k])]

\* 18 candidates: 5 fetches fail, 3 give 60 characters, 10 give 150
Example18 ==
    [i \in 1..18 |->
        IF i \in {2, 5, 8, 11, 14} THEN Fulfilled(Null)
        ELSE IF i \in {1, 9, 17} THEN Fulfilled(Article(<<"e.org", "/e">>, 60))
        ELSE Fulfilled(Article(<<"e.org", "/e">>, 150))]

\* C8: ScrapedData.articles holds exactly the selected URLs whose fetch produced
\* an article with content longer than 100 characters, one entry each, in
\* selection order whatever the order in which the fetches complete.
C8_ArticlesInSelectionOrder ==
    /\ PastBarrier => successfulArticles = ExpectedArticles
    /\ batchPc = "returned" => scrapedData.articles = ExpectedArticles
    /\ Len(SuccessfulArticles(Example18)) = 10

C8_Witness ==
    /\ batchPc = "returned"
    /\ BatchSize = 3
    /\ scrapedArticles[1].value = Null
    /\ fetches[2].outcome.body.html = HtmlThin
    /\ Len(scrapedData.articles) = 1
    /\ scrapedData.articles[1].url = articlesToScrape[3].link

RequestFailed(o) ==
    \/ o.kind \in {"error", "abort"}
    \/ ~o.ok
    \/ o.body.kind = "error"
    \/ o.body.html.len < MinHtml
    \/ o.body.html.throws

\* C9: scrapeArticle never throws; on a non-2xx status, an absent or short body,
\* a network error, a timeout and a failure inside the extraction it returns
\* null; only a 2xx response with a body of at least 100 characters is extracted.
C9_ScrapeNeverThrows ==
    batchPc # "off" =>
       \A i \in 1..Len(fetches) :
          /\ scrapedArticles[i].status # "rejected"
          /\ fetches[i].state = "settled" =>
                /\ scrapedArticles[i].status = "fulfilled"
                /\ RequestFailed(fetches[i].outcome) =>
                      scrapedArticles[i].value = Null
                /\ scrapedArticles[i].value # Null =>
                      /\ fetches[i].outcome.kind = "response"
                      /\ fetches[i].outcome.ok
                      /\ fetches[i].outcome.body.kind = "text"
                      /\ fetches[i].outcome.body.html.len >= MinHtml

C9_Witness ==
    /\ batchPc = "settling"
    /\ BatchSize >= 1
    /\ fetches[1].state = "settled"
    /\ fetches[1].outcome.body = BodyText(HtmlBroken)
    /\ scrapedArticles[1] = Fulfilled(Null)

ThreeRequests == <<1, 11, 21>>

C10_RequestsInOrder ==
    /\ IsPrefix(requests, ThreeRequests)
    /\ searchPc \in {"filter", "scrape"} => requests = ThreeRequests

\* the answer of a page: the loop goes on, and what a good page gave is kept
C10_PageKeptOrSkipped ==
    searchPc = "await" /\ searchPc' # "await" =>
       /\ searchPc' \in {"pause", "request", "filter"}
       /\ allResults' = allResults \o
             (IF webResponse' \in PageFailures THEN <<>>
              ELSE NormalizeItems(webResponse'.items))

C10_NothingDropped == IsPrefix(allResults, allResults')

\* C10: a page request that fails (non-2xx, malformed JSON, HTML error page,
\* API-reported error, thrown network error) is skipped without aborting: with
\* credentials present the three requests start = 1, 11, 21 are sent in that
\* order whatever earlier pages gave, and the results of the good pages are kept.
C10_FailedPageSkipped ==
    /\ [](C10_RequestsInOrder)
    /\ [][C10_PageKeptOrSkipped]_vars
    /\ [][C10_NothingDropped]_vars

C10_Witness ==
    /\ searchPc = "await"
    /\ requests = ThreeRequests
    /\ webResponse \in PageFailures
    /\ allResults # <<>>

(***************************************************************************)
(* C11: when the search stage throws                                       *)
(***************************************************************************)
\* the loop is over and none of the three pages passed the checks: pages 1 and 2
\* were not followed by a pause and the answer of page 3 is a failure
EveryPageFailed ==
    /\ searchPc \in {"filter", "scrape"}
    /\ pauses = <<>>
    /\ ~PageSucceeds(webResponse)

\* C11: searchGoogleAndScrape throws exactly when the credentials are absent
\* (before any request is sent) and when every one of the three page requests
\* failed: it has thrown only with no request sent or all pages failed, and it
\* does not go on to filter and scrape when all three pages failed.
C11_ThrowsExactly ==
    /\ searchPc = "thrown" => requests = <<>>
    /\ searchPc = "scrape" => ~EveryPageFailed

(***************************************************************************)
(* C12 - C14: the filtered results and the selection                       *)
(***************************************************************************)
Selected == searchPc = "scrape"

\* entry k of allResults is the first one with its link
FirstOfItsLink(k) ==
    \A j \in 1..(k - 1) : allResults[j].link # allResults[k].link

\* the names of the blocklist, as the claim lists them
BlockedNames == {"tiktok.com", "pinterest.com", "facebook.com", "twitter.com",
                 "instagram.com", "youtube.com"}

\* the link or the display domain names a blocked domain, in any case
MatchesBlocklist(r) ==
    \/ \E i \in 1..Len(r.link) : LowerPiece(r.link[i]) \in BlockedNames
    \/ \E i \in 1..Len(r.displayLink) : LowerPiece(r.displayLink[i]) \in BlockedNames

\* C12: the results list never holds two entries with the same link, and of the
\* hits with an equal link, across all pages, the one kept is the first
\* occurrence: every kept entry is the first hit with its link, and every first
\* hit that is not blocklisted is kept.
C12_FirstOccurrenceWins ==
    Selected =>
       /\ \A i, j \in 1..Len(filteredResults) :
             i # j => filteredResults[i].link # filteredResults[j].link
       /\ \A i \in 1..Len(filteredResults) :
             \E k \in 1..Len(allResults) :
                allResults[k] = filteredResults[i] /\ FirstOfItsLink(k)
       /\ \A k \in 1..Len(allResults) :
             FirstOfItsLink(k) /\ ~MatchesBlocklist(allResults[k]) =>
                \E i \in 1..Len(filteredResults) : filteredResults[i] = allResults[k]

\* two different hits share a link and the first of them was kept
C12_Witness ==
    /\ Selected
    /\ \E j, k \in 1..Len(allResults) :
          /\ j < k
          /\ allResults[j].link = allResults[k].link
          /\ allResults[j] # allResults[k]
          /\ FirstOfItsLink(j)
          /\ \E i \in 1..Len(filteredResults) : filteredResults[i] = allResults[j]

\* C13: no entry of the results list, and no result selected for scraping, has a
\* link or display domain that matches a blocklisted domain in any letter case,
\* and every kept entry has a non-empty title and snippet.
C13_NoBlockedDomain ==
    Selected =>
       /\ \A i \in 1..Len(filteredResults) :
             /\ ~MatchesBlocklist(filteredResults[i])
             /\ filteredResults[i].title # ""
             /\ filteredResults[i].snippet # ""
       /\ \A i \in 1..Len(articlesToScrape) :
             /\ ~MatchesBlocklist(articlesToScrape[i])
             /\ \E k \in 1..Len(filteredResults) :
                   filteredResults[k] = articlesToScrape[i]

\* hits with a blocked name in upper case in the link and in the display domain
\* were dropped, and a hit that came without title and snippet was kept
C13_Witness ==
    /\ Selected
    /\ \E k \in 1..Len(allResults) : allResults[k] = NormalizeItem(ItemF)
    /\ \E k \in 1..Len(allResults) : allResults[k] = NormalizeItem(ItemY)
    /\ filteredResults = <<NormalizeItem(ItemBare)>>
    /\ articlesToScrape = filteredResults

\* the link or the display domain names reddit.com, in any case
MentionsReddit(r) ==
    \/ \E i \in 1..Len(r.link) : LowerPiece(r.link[i]) = "reddit.com"
    \/ \E i \in 1..Len(r.displayLink) : LowerPiece(r.displayLink[i]) = "reddit.com"

IsNews(r) == ~MentionsReddit(r)
FirstOf(s, n) == [i \in 1..(IF Len(s) < n THEN Len(s) ELSE n) |-> s[i]]

\* C14: at most 18 URLs are selected for scraping, at most 2 of them Reddit and
\* at most 16 non-Reddit; the selection is the first 16 filtered non-Reddit
\* results followed by the first 2 filtered Reddit results.
C14_SelectionCaps ==
    Selected =>
       /\ Len(articlesToScrape) <= 18
       /\ Len(SelectSeq(articlesToScrape, MentionsReddit)) <= 2
       /\ Len(SelectSeq(articlesToScrape, IsNews)) <= 16
       /\ articlesToScrape =
             FirstOf(SelectSeq(filteredResults, IsNews), 16)
                \o FirstOf(SelectSeq(filteredResults, MentionsReddit), 2)

\* more than 16 non-Reddit and more than 2 Reddit results passed the filter, the
\* Reddit ones first, and 18 were selected
C14_Witness ==
    /\ Selected
    /\ Len(SelectSeq(filteredResults, IsNews)) > 16
    /\ Len(SelectSeq(filteredResults, MentionsReddit)) > 2
    /\ MentionsReddit(filteredResults[1])
    /\ Len(articlesToScrape) = 18

(***************************************************************************)
(* C15: Reddit results in the results list that is returned                *)
(***************************************************************************)
\* C15: the results list the Web Search Client outputs (ScrapedData.results)
\* holds at most 2 Reddit results, whatever the pages answered.
C15_ResultsRedditCap ==
    batchPc = "returned" =>
       Len(SelectSeq(scrapedData.results, MentionsReddit)) <= 2

(***************************************************************************)
(* C16: the page requests are sequential and separated by the pause        *)
(***************************************************************************)
\* C16: the three page requests are issued one at a time, never concurrently, and
\* between any two consecutive page requests the inter-page pause has elapsed,
\* whatever the outcome of the earlier request.
C16_PauseBetweenRequests ==
    /\ inFlight <= 1
    /\ \A k \in 1..(Len(requests) - 1) :
          \E i \in 1..Len(pauses) : pauses[i] = k

(***************************************************************************)
(* C17: the image search is best-effort                                    *)
(***************************************************************************)
\* the answer of the image API is one of the failures: a network error or
\* timeout, a non-2xx status, an HTML or non-JSON body, an error payload, no items
ImageSearchFailed(o) ==
    o.thrown \/ ~o.ok \/ o.html \/ ~o.validJSON \/ o.error \/ ~o.hasItems

SavedRow == event_details[Len(event_details)]

\* C17: searchImages never throws and returns the empty list on every failure,
\* and a failed image search does not block the pipeline: the scrape stage fails
\* after it only for want of articles, and the record is synthesized and
\* persisted with images = [].
C17_ImagesBestEffort ==
    calls.image > 0 /\ ImageSearchFailed(imageResponse) =>
       /\ scrapedData.images = <<>>
       /\ pc = "failed" /\ Last(stagesEntered) = "scrape" =>
             scrapedData.articles = <<>>
       /\ pc \in {"merge", "persist", "persist_write", "touch", "done"} =>
             analyzedData # NoData
       /\ pc \in {"touch", "done"} =>
             /\ SavedRow.content.images = <<>>
             /\ SavedRow.content = structuredData

\* the image API answered with an error payload and the run ended well, the
\* record saved with sources and no images
C17_Witness ==
    /\ pc = "done"
    /\ result.status = "ok"
    /\ calls.image > 0
    /\ imageResponse.error
    /\ SavedRow.content.images = <<>>
    /\ SavedRow.content.sources # <<>>

(***************************************************************************)
(* C18: saveEventDetails inserts once, then updates                        *)
(***************************************************************************)
SaveReturned == pc \in {"touch", "done"}

\* C18: a saveEventDetails that returns on an event_id with no event_details row
\* has inserted exactly one row with created_at equal to updated_at; one that
\* returns on an event_id whose row an earlier call inserted has added no second
\* row, has overwritten the content with the new data, has advanced updated_at
\* and has left created_at as it was.
C18_InsertThenUpdate ==
    SaveReturned =>
       /\ Len(event_details) = 1
       /\ event_details[1].content = structuredData
       /\ event_details[1].updated_at = dbOperation.timestamp
       /\ IF pre.event_details = <<>>
          THEN event_details[1].created_at = event_details[1].updated_at
          ELSE /\ event_details[1].created_at = pre.event_details[1].created_at
               /\ event_details[1].updated_at > pre.event_details[1].updated_at

(***************************************************************************)
(* C19: a failed touch of events.last_updated is not propagated            *)
(***************************************************************************)
\* the step that ends updateEventTimestamp, with the events row left as it was:
\* the update of last_updated failed
TouchFailedStep == pc = "touch" /\ pc' # "touch" /\ events' = events

C19_RunCompletes ==
    TouchFailedStep =>
       /\ pc' = "done"
       /\ result'.status = "ok"
       /\ event_details' = event_details
       /\ structuredData' = structuredData
       /\ scrapedData' = scrapedData

\* C19: when the touch of events.last_updated fails after event_details was
\* saved, processEvent still completes successfully and returns its result, and
\* the saved event_details row is unaffected; no run ends with the error of the
\* touch.
C19_TouchFailureSwallowed ==
    /\ [][C19_RunCompletes]_vars
    /\ [](pc = "done" => result.status = "ok" /\ SavedRow.content = structuredData)

\* the run is done, the row was saved, and last_updated is what it was
C19_Witness ==
    /\ pc = "done"
    /\ result.status = "ok"
    /\ events = pre.events
    /\ event_details # pre.event_details
    /\ SavedRow.content = structuredData

(***************************************************************************)
(* C20: the cache-invalidation endpoint is notified after a write          *)
(***************************************************************************)
\* C20: when a run has written event_details and is done, the cache-invalidation
\* endpoint has been sent the tags of the event_id; a run that wrote nothing has
\* not notified it.
C20_NotifiedAfterWrite ==
    /\ pc = "done" => calls.revalidate > 0
    /\ pc = "failed" /\ event_details = pre.event_details => calls.revalidate = 0

(***************************************************************************)
(* C21: the persisted sources and images                                   *)
(***************************************************************************)
Merged == pc \in {"persist", "persist_write", "touch", "done"}

UrlsOf(articles) == [i \in 1..Len(articles) |-> articles[i].url]

\* the link is the link of a selected result whose fetch gave an article with
\* content longer than 100
ScrapedWell(link) ==
    \E i \in 1..Len(articlesToScrape) :
       /\ articlesToScrape[i].link = link
       /\ scrapedArticles[i].status = "fulfilled"
       /\ scrapedArticles[i].value # Null
       /\ scrapedArticles[i].value.content > 100

\* C21: the sources list of the record is exactly the URLs of the articles of
\* ScrapedData.articles, all of them and not only the 15 of the prompt; it holds
\* no URL of a hit whose fetch failed or that was not selected; the images list
\* is exactly ScrapedData.images; and the row saved holds these lists.
C21_SourcesAreScraped ==
    Merged =>
       /\ structuredData.sources = UrlsOf(scrapedData.articles)
       /\ structuredData.images = scrapedData.images
       /\ \A i \in 1..Len(structuredData.sources) :
             ScrapedWell(structuredData.sources[i])
       /\ \A i \in 1..Len(articlesToScrape) :
             ScrapedWell(articlesToScrape[i].link) =>
                \E k \in 1..Len(structuredData.sources) :
                   structuredData.sources[k] = articlesToScrape[i].link
       /\ SaveReturned =>
             /\ SavedRow.content.sources = structuredData.sources
             /\ SavedRow.content.images = structuredData.images

\* 16 articles were scraped, two selected Reddit fetches failed and a third Reddit
\* hit was not selected: the row saved lists the 16 URLs
C21_Witness ==
    /\ SaveReturned
    /\ Len(SavedRow.content.sources) = 16
    /\ Len(filteredResults) > Len(articlesToScrape)
    /\ \E i \in 1..Len(articlesToScrape) : scrapedArticles[i].value = Null
    /\ SavedRow.content.images # <<>>

(***************************************************************************)
(* C22: failures of the Load query stage                                   *)
(***************************************************************************)
FailedAtLoad == pc = "failed" /\ stagesEntered = <<"load">>

\* C22: processEvent fails at the Load query stage when the events row is absent,
\* when the read returns an error or when the query of the row is empty: with no
\* row or an empty query no later stage is entered, and a run that failed at Load
\* query made no search request, article fetch, image search, LLM call or
\* database write and ended with one of the two errors of the stage.
C22_LoadFailsEarly ==
    /\ ~events.present \/ events.query = "" =>
          /\ pc \in {"idle", "load", "failed"}
          /\ pc = "failed" => FailedAtLoad
    /\ FailedAtLoad =>
          /\ result.status = "error"
          /\ result.error \in {ErrEventNotFound, ErrMissingQuery}
          /\ calls.search = 0 /\ calls.fetch = 0 /\ calls.image = 0
          /\ calls.llm = 0 /\ calls.dbWrite = 0
          /\ events = pre.events /\ event_details = pre.event_details

\* the row is there with a query and the run failed at Load query: the read
\* returned an error
C22_Witness ==
    /\ FailedAtLoad
    /\ events.present /\ events.query # ""
    /\ result.error = ErrEventNotFound
    /\ calls.dbRead = 1

(***************************************************************************)
(* C30: processArticlesWithGroq and its scrapedData argument               *)
(***************************************************************************)
\* C30: processArticlesWithGroq leaves scrapedData as it got it: the articles
\* are those searchGoogleAndScrape returned, in selection order, and so are the
\* sources of the record.
C30_ArticlesKeepOrder ==
    /\ scrapedData.articles = successfulArticles
    /\ Merged => structuredData.sources = UrlsOf(successfulArticles)

(***************************************************************************)
(* C23: the repair of a wrapped response                                   *)
(***************************************************************************)
\* the braces and members of a text: the object of a wrapped response
ObjectWithin(text) == SelectSeq(text, LAMBDA t : t \in {LB, RB} \cup MemberTokens)

\* C23: for a response made of a valid JSON object, with or without fences and
\* with or without prose that holds no brace before and after it, the repair
\* steps find the object: the parsed result equals the object parsed on its own,
\* synthesis does not fail, and the data it returns is the data it returns for
\* the object alone.
C23_RepairRecoversObject ==
    response.kind = "text" /\ response.text \in WrappedTexts =>
       LET alone == JSONParse(ObjectWithin(response.text))
           span == JsonSpan(response.text)
       IN /\ span.found
          /\ alone.ok /\ alone.kind = "object"
          /\ JSONParse(span.jsonString) = alone
          /\ pc \in {"merge", "persist"} =>
                analyzedData = GroqOutcome(Text(ObjectWithin(response.text))).data
          /\ pc = "failed" => result.error = ErrMerge

\* a fenced response with prose before the object and after the closing fence
\* was parsed into the object
C23_Witness ==
    /\ pc = "merge"
    /\ response.kind = "text" /\ response.text \in WrappedTexts
    /\ StartsWith(response.text, <<FENCE, JSONTAG, WS, PROSE>>)
    /\ response.text[Len(response.text)] = PROSE
    /\ \E i \in 1..Len(response.text) : response.text[i] = FENCE /\ i > 1
    /\ analyzedData.fields = FillMissing(ObjectOf(<<"location">>), 1)

(***************************************************************************)
(* The Content Extractor on its own: one step per tier of the ladder       *)
(***************************************************************************)
\* everything but the extractor is at rest
PipelineIdle ==
    /\ pc = "idle" /\ stagesEntered = <<>> /\ now = 1
    /\ events = EventRow(TRUE, "q") /\ event_details = <<>>
    /\ pre = [events |-> events, event_details |-> event_details]
    /\ PipelineFresh
    /\ SearchIdle
    /\ BatchIdle

\* pages by the text each tier finds in them; throws: new URL(url) rejects the url
ExtractPages ==
    {[Html(7000, a, p, d, m) EXCEPT !.throws = t] :
        a \in {0, 150, 250, 400, 6000}, p \in {-1, 0, 60, 150, 250, 6000},
        d \in {-1, 60, 180, 6000}, m \in {0, 60, 120, 6000}, t \in BOOLEAN}

ExtractUrl == <<"a.com", "/1">>

TierEntry(tier, text) == [tier |-> tier, content |-> text]

InitExtract ==
    /\ PipelineIdle
    /\ RouteIdle /\ SaveIdle /\ BarIdle
    /\ extractPc = "tierA"
    /\ html \in ExtractPages
    /\ content = 0
    /\ tiersTried = <<>>
    /\ article = Null

\* lines 114-128
ExtractTierA ==
    /\ extractPc = "tierA"
    /\ content' = TierA(html)
    /\ tiersTried' = Append(tiersTried, TierEntry("A", content'))
    /\ extractPc' = "tierB"
    /\ UNCHANGED <<html, article>>
    /\ UNCHANGED <<pipelineVars, searchVars, batchVars, routeVars, saveVars, barVars>>

\* lines 130-140
ExtractTierB ==
    /\ extractPc = "tierB"
    /\ IF TierBTried(content)
       THEN /\ content' = TierB(content, html)
            /\ tiersTried' = Append(tiersTried, TierEntry("B", content'))
       ELSE UNCHANGED <<content, tiersTried>>
    /\ extractPc' = "tierC"
    /\ UNCHANGED <<html, article>>
    /\ UNCHANGED <<pipelineVars, searchVars, batchVars, routeVars, saveVars, barVars>>

\* lines 142-155
ExtractTierC ==
    /\ extractPc = "tierC"
    /\ IF TierCTried(content)
       THEN /\ content' = TierC(content, html)
            /\ tiersTried' = Append(tiersTried, TierEntry("C", content'))
       ELSE UNCHANGED <<content, tiersTried>>
    /\ extractPc' = "tierD"
    /\ UNCHANGED <<html, article>>
    /\ UNCHANGED <<pipelineVars, searchVars, batchVars, routeVars, saveVars, barVars>>

\* lines 157-159
ExtractTierD ==
    /\ extractPc = "tierD"
    /\ IF TierDTried(content)
       THEN /\ content' = TierD(content, html)
            /\ tiersTried' = Append(tiersTried, TierEntry("D", content'))
       ELSE UNCHANGED <<content, tiersTried>>
    /\ extractPc' = "return"
    /\ UNCHANGED <<html, article>>
    /\ UNCHANGED <<pipelineVars, searchVars, batchVars, routeVars, saveVars, barVars>>

\* lines 161-170: new URL(url) throws on an invalid url, else the article is returned
ExtractReturn ==
    /\ extractPc = "return"
    /\ IF html.throws
       THEN extractPc' = "threw" /\ UNCHANGED article
       ELSE /\ extractPc' = "returned"
            /\ article' = [url |-> ExtractUrl, content |-> Truncate(content)]
    /\ UNCHANGED <<html, content, tiersTried>>
    /\ UNCHANGED <<pipelineVars, searchVars, batchVars, routeVars, saveVars, barVars>>

NextExtract ==
    \/ ExtractTierA
    \/ ExtractTierB
    \/ ExtractTierC
    \/ ExtractTierD
    \/ ExtractReturn

SpecExtract == InitExtract /\ [][NextExtract]_vars

(***************************************************************************)
(* C24, C25, C29: the fallback ladder                                      *)
(***************************************************************************)
LastTier == tiersTried[Len(tiersTried)].tier

\* C24: for every page and valid url the content of the article returned by
\* extractArticleContent is at most 5000 long, whichever tier produced it, and
\* the steps of the ladder give what extractArticleContent gives.
C24_ContentAtMost5000 ==
    extractPc = "returned" =>
       /\ article.content <= 5000
       /\ article = extractArticleContent(html, ExtractUrl)

\* the meta description, over 5000 long, was cut to 5000
C24_Witness ==
    /\ extractPc = "returned"
    /\ LastTier = "D"
    /\ content > 5000
    /\ article.content = 5000

TierRank(tier) == CASE tier = "A" -> 1 [] tier = "B" -> 2 [] tier = "C" -> 3
                    [] tier = "D" -> 4

Tried(tier) == \E i \in 1..Len(tiersTried) : tiersTried[i].tier = tier

\* the content before the tier at position i was tried
ContentBefore(i) == IF i = 1 THEN 0 ELSE tiersTried[i - 1].content

\* the content the ladder had when it reached the check of the tier
ContentReaching(tier) ==
    LET earlier == {i \in 1..Len(tiersTried) :
                       TierRank(tiersTried[i].tier) < TierRank(tier)}
    IN tiersTried[CHOOSE i \in earlier : \A j \in earlier : j <= i].content

\* C25: the tiers are tried in the order A, B, C, D, and B, C and D only when
\* the content so far is under 300, 200 and 100; for a page with no article,
\* main or content-class div match and a valid url the extractor does not throw,
\* tries the paragraphs, then the class-matched divs exactly when the result is
\* under 200, then takes the meta description exactly when the result is
\* still under 100.
C25_FallsThroughInOrder ==
    /\ \A i \in 2..Len(tiersTried) :
          /\ TierRank(tiersTried[i].tier) > TierRank(tiersTried[i - 1].tier)
          /\ tiersTried[i].tier = "B" => ContentBefore(i) < 300
          /\ tiersTried[i].tier = "C" => ContentBefore(i) < 200
          /\ tiersTried[i].tier = "D" => ContentBefore(i) < 100
    /\ html.a = 0 /\ ~html.throws =>
          /\ extractPc # "threw"
          /\ extractPc \in {"return", "returned"} =>
                /\ Tried("A") /\ Tried("B")
                /\ ContentReaching("C") = (IF html.p >= 0 THEN html.p ELSE 0)
                /\ Tried("C") <=> ContentReaching("C") < 200
                /\ Tried("D") <=> ContentReaching("D") < 100
                /\ Tried("D") => content = html.m
          /\ extractPc = "returned" => article.content = Min(content, 5000)

\* no tier A match, paragraphs of 60 characters, divs of 60 characters: the
\* ladder went through all four tiers and returned the meta description
C25_Witness ==
    /\ extractPc = "returned"
    /\ html.a = 0 /\ html.p = 60 /\ html.d = 60 /\ html.m = 120
    /\ Len(tiersTried) = 4
    /\ article.content = 120

\* C29: along the ladder the length of content never decreases, a later tier
\* replaces the content only with a longer text, and the content returned is
\* not shorter than min(5000, length of the Tier A text).
C29_ContentNeverShrinks ==
    /\ \A i \in 2..Len(tiersTried) :
          tiersTried[i].content >= tiersTried[i - 1].content
    /\ extractPc = "returned" => article.content >= Min(5000, html.a)

(***************************************************************************)
(* The HTTP route: the GET and POST handlers around processEvent           *)
(***************************************************************************)
\* api_key: missing, different from API_SECRET_KEY, or equal to it;
\* event_id: missing, given, or (POST) a body that is not JSON
Requests ==
    {[method |-> "GET", api_key |-> k, event_id |-> e] :
        k \in {"missing", "wrong", "valid"}, e \in {"missing", "e1"}}
      \cup
    {[method |-> "POST", api_key |-> k, event_id |-> e] :
        k \in {"missing", "wrong", "valid"}, e \in {"missing", "e1", "not JSON"}}

InitRoute ==
    /\ pc = "idle" /\ stagesEntered = <<>> /\ now = 1
    /\ events \in {EventRow(FALSE, ""), EventRow(TRUE, "q")}
    /\ event_details = <<>>
    /\ pre = [events |-> events, event_details |-> event_details]
    /\ PipelineFresh
    /\ SearchIdle
    /\ BatchIdle
    /\ ExtractIdle /\ SaveIdle /\ BarIdle
    /\ routePc = "received"
    /\ request \in Requests
    /\ httpStatus = 0

\* the handler answers without calling processEvent
Answer(status) ==
    /\ httpStatus' = status
    /\ routePc' = "answered"
    /\ UNCHANGED pipelineVars

\* await processEvent(event_id): the invocation starts
CallProcessEvent ==
    /\ routePc' = "processing"
    /\ EnterStage("load")
    /\ pre' = [events |-> events, event_details |-> event_details]
    /\ UNCHANGED <<httpStatus, now, events, event_details, scrapedData, response,
                   analyzedData, structuredData, dbOperation, result, calls>>

\* GET, lines 688-708: the key check, the event_id check, then processEvent
HandleGET ==
    /\ routePc = "received" /\ request.method = "GET"
    /\ IF request.api_key # "valid" THEN Answer(401)
       ELSE IF request.event_id = "missing" THEN Answer(400)
       ELSE CallProcessEvent
    /\ UNCHANGED <<request, searchVars, batchVars, extractVars, saveVars, barVars>>

\* POST, lines 741-752: request.json(), the event_id check, then processEvent
HandlePOST ==
    /\ routePc = "received" /\ request.method = "POST"
    /\ IF request.event_id = "not JSON" THEN Answer(500)
       ELSE IF request.event_id = "missing" THEN Answer(400)
       ELSE CallProcessEvent
    /\ UNCHANGED <<request, searchVars, batchVars, extractVars, saveVars, barVars>>

\* lines 710-738 and 754-776: the success response, or the catch with status 500
Respond ==
    /\ routePc = "processing" /\ pc \in {"done", "failed"}
    /\ httpStatus' = (IF pc = "done" THEN 200 ELSE 500)
    /\ routePc' = "answered"
    /\ UNCHANGED <<request, pipelineVars, searchVars, batchVars, extractVars,
                   saveVars, barVars>>

NextRoute ==
    \/ HandleGET
    \/ HandlePOST
    \/ LoadQuery
    \/ Scrape
    \/ SynthesizeStage
    \/ Merge
    \/ PersistCheck
    \/ PersistWrite
    \/ TouchTimestamp
    \/ Respond

SpecRoute == InitRoute /\ [][NextRoute]_vars

(***************************************************************************)
(* C27: the key check of the route                                         *)
(***************************************************************************)
\* C27: processEvent is invoked through the route only after a successful key
\* check: a GET or POST request whose api_key is missing or differs from
\* API_SECRET_KEY is answered with 401 and triggers no database read, search
\* request, LLM call or database write.
C27_KeyCheckedFirst ==
    request.api_key # "valid" =>
       /\ pc = "idle"
       /\ calls = NoCalls
       /\ event_details = pre.event_details /\ events = pre.events
       /\ routePc = "answered" => httpStatus = 401

(***************************************************************************)
(* Two concurrent saveEventDetails calls for one event_id                  *)
(***************************************************************************)
Runs == {1, 2}

\* the record each call saves
RunData(r) ==
    [kind |-> "object", fields |-> FillMissing(<<>>, 1),
     sources |-> IF r = 1 THEN <<ItemA.link>> ELSE <<ItemB.link>>,
     images |-> <<>>]

InitSave ==
    /\ pc = "idle" /\ stagesEntered = <<>> /\ now = 1
    /\ events = EventRow(TRUE, "q")
    /\ event_details \in {<<>>, <<OldRow>>}
    /\ pre = [events |-> events, event_details |-> event_details]
    /\ PipelineFresh
    /\ SearchIdle
    /\ BatchIdle
    /\ ExtractIdle /\ RouteIdle /\ BarIdle
    /\ savePc = [r \in Runs |-> "check"]
    /\ saveOp = [r \in Runs |-> "none"]
    /\ saveTimestamp = [r \in Runs |-> 0]
    /\ issued = <<>>

\* lines 579-619 of call r: the existence check answers, the timestamp is taken
\* and the operation is chosen
SaveCheck(r) ==
    /\ savePc[r] = "check"
    /\ \E checkFails \in BOOLEAN :
          saveOp' = [saveOp EXCEPT ![r] = ChooseDbOperation(event_details, checkFails)]
    /\ saveTimestamp' = [saveTimestamp EXCEPT ![r] = now]
    /\ savePc' = [savePc EXCEPT ![r] = "write"]
    /\ UNCHANGED <<issued, pipelineVars, searchVars, batchVars, extractVars,
                   routeVars, barVars>>

\* lines 621-627 of call r: the store applies the operation or rejects it
SaveWrite(r) ==
    /\ savePc[r] = "write"
    /\ issued' = Append(issued, [run |-> r, op |-> saveOp[r]])
    /\ \E saveFails \in BOOLEAN :
          /\ event_details' = WriteOutcome(event_details, saveOp[r], RunData(r),
                                           saveTimestamp[r], saveFails)
          /\ savePc' = [savePc EXCEPT ![r] = IF saveFails THEN "threw" ELSE "returned"]
    /\ UNCHANGED <<saveOp, saveTimestamp>>
    /\ UNCHANGED <<pc, stagesEntered, now, events, pre, scrapedData, response,
                   analyzedData, structuredData, dbOperation, result, calls>>
    /\ UNCHANGED <<searchVars, batchVars, extractVars, routeVars, barVars>>

NextSave ==
    \/ Tick
    \/ \E r \in Runs : SaveCheck(r)
    \/ \E r \in Runs : SaveWrite(r)

SpecSave == InitSave /\ [][NextSave]_vars

(***************************************************************************)
(* C28: concurrent saves of one event_id                                   *)
(***************************************************************************)
InsertsIssued == {i \in 1..Len(issued) : issued[i].op = "insert"}

\* C28: however two saveEventDetails calls for one event_id interleave, the
\* store receives at most one insert and never holds two rows for the event_id,
\* and no call inserts for an event_id that already has a row, also when its
\* existence check returned an error.
C28_AtMostOneInsert ==
    /\ Cardinality(InsertsIssued) <= 1
    /\ Len(event_details) <= 1
    /\ pre.event_details # <<>> => InsertsIssued = {}

(***************************************************************************)
(* SearchBar (src/app/search-bar.tsx): handleSearch and its timeouts       *)
(*                                                                         *)
(* A value of the input is a sequence of characters, WS a white space.     *)
(***************************************************************************)
\* most handleSearch calls in a run
MaxKeys == 3
\* the time the browser clock runs to, and the step it advances by, in ms
MaxBarClock == 150
TimeStep == 50
\* the delay of the timeout
DebounceMs == 150

InputValues == {<<>>, <<WS>>, <<"A">>, <<"a", "b">>}

\* the events of the page with the text of the search index, filter 'All'
filteredEvents ==
    <<[event_id |-> 1, searchText |-> <<"a", "b">>],
      [event_id |-> 2, searchText |-> <<"a", WS, "c">>],
      [event_id |-> 3, searchText |-> <<"c">>]>>

LowerChar(c) == IF c = "A" THEN "a" ELSE c
LowerText(text) == [i \in 1..Len(text) |-> LowerChar(text[i])]

\* searchText.includes(term)
IncludesTerm(text, term) ==
    \E i \in 0..(Len(text) - Len(term)) : SubSeq(text, i + 1, i + Len(term)) = term

\* performSearch for a query of at most one term
performSearch(query) ==
    IF Trim(query) = <<>> THEN filteredEvents
    ELSE SelectSeq(filteredEvents,
                   LAMBDA e : IncludesTerm(e.searchText, Trim(LowerText(query))))

\* one onSearchResults call; key: the number of handleSearch calls made when the
\* call was caused, value: the input value it is for
Callback(results, isActive, key, value) ==
    [results |-> results, isActive |-> isActive, key |-> key, value |-> value,
     at |-> barClock]

InitBar ==
    /\ PipelineIdle
    /\ ExtractIdle /\ RouteIdle /\ SaveIdle
    /\ searchQuery = <<>>
    /\ timers = {}
    /\ barClock = 0
    /\ typed = <<>>
    /\ delivered = <<>>

\* handleSearch(value), called by onChange, which drops the function it returns
HandleSearch ==
    /\ Len(typed) < MaxKeys
    /\ \E value \in InputValues :
          /\ value # searchQuery
          /\ searchQuery' = value
          /\ typed' = Append(typed, [value |-> value, at |-> barClock])
          /\ IF Trim(value) = <<>>
             THEN /\ delivered' = Append(delivered,
                                         Callback(<<>>, FALSE, Len(typed'), value))
                  /\ UNCHANGED timers
             ELSE /\ timers' = timers \cup {[key |-> Len(typed'), value |-> value,
                                              due |-> barClock + DebounceMs]}
                  /\ UNCHANGED delivered
    /\ UNCHANGED <<barClock, pipelineVars, searchVars, batchVars, extractVars,
                   routeVars, saveVars>>

\* the callback of a timeout runs: performSearch and onSearchResults(results, true)
TimerFires ==
    /\ \E t \in timers :
          /\ t.due <= barClock
          /\ \A u \in timers : u.due >= t.due
          /\ timers' = timers \ {t}
          /\ delivered' = Append(delivered,
                                 Callback(performSearch(t.value), TRUE, t.key, t.value))
    /\ UNCHANGED <<searchQuery, barClock, typed, pipelineVars, searchVars, batchVars,
                   extractVars, routeVars, saveVars>>

\* handleClear, the clear button (onToggle is the parent's)
HandleClear ==
    /\ searchQuery # <<>>
    /\ searchQuery' = <<>>
    /\ delivered' = Append(delivered, Callback(<<>>, FALSE, Len(typed), <<>>))
    /\ UNCHANGED <<timers, barClock, typed, pipelineVars, searchVars, batchVars,
                   extractVars, routeVars, saveVars>>

\* time passes; a timeout that is due runs before the clock moves on
AdvanceTime ==
    /\ barClock < MaxBarClock
    /\ \A t \in timers : t.due > barClock
    /\ barClock' = barClock + TimeStep
    /\ UNCHANGED <<searchQuery, timers, typed, delivered, pipelineVars, searchVars,
                   batchVars, extractVars, routeVars, saveVars>>

NextBar ==
    \/ HandleSearch
    \/ TimerFires
    \/ HandleClear
    \/ AdvanceTime

SpecBar == InitBar /\ [][NextBar]_vars

(***************************************************************************)
(* C26: the debounce of the search input                                   *)
(***************************************************************************)
\* C26: when the input changes several times within 150 ms only the last value
\* produces an onSearchResults(results, true) call, and after the input was
\* cleared (onSearchResults(null, false)) no onSearchResults(results, true) call
\* for a value entered before the clearing is delivered.
C26_Debounced ==
    /\ \A i \in 1..Len(delivered) :
          delivered[i].isActive =>
             ~\E j \in (delivered[i].key + 1)..Len(typed) :
                 typed[j].at - typed[delivered[i].key].at < 150
    /\ \A i \in 1..Len(delivered) : \A j \in (i + 1)..Len(delivered) :
          ~delivered[i].isActive /\ delivered[j].isActive =>
             delivered[j].key > delivered[i].key
====
